---- MODULE Spec2Model ----
(***************************************************************************)
(* Fuelink: Node/Player orchestration core.                                *)
(*                                                                         *)
(* The module models three parts of the client, each with its own          *)
(* specification over the shared variable tuple:                           *)
(*   ConnSpec    the per-guild voice handshake (structures/Connection)     *)
(*   NodeSpec    the node pool, sockets, reconnection and failover         *)
(*               (structures/Node, managers/NodeManager, Player.migrate)   *)
(*   PlayerSpec  the playback state machine and its queue                  *)
(*               (structures/Player, structures/Queue)                     *)
(***************************************************************************)
EXTENDS Integers, Sequences, FiniteSets, TLC

(***************************************************************************)
(* Bounds                                                                  *)
(***************************************************************************)
\* number of Connection.connect() calls followed in one behaviour
MaxCalls == 3

\* number of sockets one Node opens in one behaviour
MaxSockets == 3
\* largest retryAmount a Node is configured with
MaxRetry == 1

\* JS null / undefined / '' for scalar fields (all falsy)
\* at most MaxInflight awaited calls per Player at a time
MaxInflight == 2
\* cap on the length of the play history
MaxHistory == 2
\* cap on the number of queued tracks
MaxQueue == 2
\* the clock runs from 0 to MaxNow
MaxNow == 1
\* positions the backend reports
MaxPos == 1
\* length of each lane of a Queue called directly, and calls of next() on it
MaxLane == 2
MaxOps == 4
\* largest player count, playing-player count, frame deficit and nulled-frame
\* count of a stats payload
MaxStat == 1

Null == "null"

(***************************************************************************)
(* Connection (structures/Connection)                                      *)
(***************************************************************************)
VARIABLES
    channelId,          \* Connection.channelId
    sessionId,          \* Connection.sessionId
    token,              \* Connection.token
    endpoint,           \* Connection.endpoint: tuple of characters, <<>> = null
    region,             \* Connection.region: tuple of characters, <<>> = null
    connected,          \* Connection.connected
    connectTimeout,     \* Connection._connectTimeout: 0 = null, k = handle of call k's timer
    pendingConnection,  \* Connection._pendingConnection: 0 = null, k = deferred of call k
    calls,              \* the promise of every connect() call: pending/resolved/rejected
    timers,             \* handshake timers that are armed (by call index)
    emitted,            \* notifications emitted by the last handler, in order
    hSessionSet,        \* history: a non-empty session id was stored since the last disconnect()
    hTokenSet,          \* history: a non-empty token was stored since the last disconnect()
    hEndpointSet,       \* history: a non-empty endpoint was stored since the last disconnect()
    hAllPresent,        \* history: the three were non-empty at once since the last disconnect()
    hEverConnected      \* history: connected was true since the last disconnect()

connVars == <<channelId, sessionId, token, endpoint, region, connected,
              connectTimeout, pendingConnection, calls, timers, emitted,
              hSessionSet, hTokenSet, hEndpointSet, hAllPresent, hEverConnected>>

(***************************************************************************)
(* Node pool (structures/Node, managers/NodeManager)                       *)
(***************************************************************************)
VARIABLES
    pool,               \* NodeManager: names of the Nodes in the map
    nodeState,          \* Node.state
    nodePriority,       \* Node.priority
    nodeRegions,        \* Node.regions
    retryAmount,        \* Node.retryAmount
    nodeSessionId,      \* Node.sessionId: 0 = null, s = session of socket s
    stats,              \* Node.stats
    ws,                 \* Node._ws: 0 = null, s = index into sockets
    reconnectAttempts,  \* Node._reconnectAttempts
    reconnectTimeout,   \* Node._reconnectTimeout refers to an armed timer
    orphanTimers,       \* armed reconnect timers whose handle was overwritten
    sockets,            \* every WebSocket created by connect(), with its handlers
    best,               \* result of the last getBest() call
    bestRegion,         \* argument of the last getBest() call
    hBestCalled,        \* history: getBest() has been called
    hDisconnected,      \* history: disconnect() was called and connect() not since
    hExhausted          \* history: a close found the reconnect attempts used up

nodeVars == <<pool, nodeState, nodePriority, nodeRegions, retryAmount, nodeSessionId,
              stats, ws, reconnectAttempts, reconnectTimeout, orphanTimers, sockets,
              best, bestRegion, hBestCalled, hDisconnected, hExhausted>>

\* Players, their Queues and the calls they await
VARIABLES
    players,        \* PlayerManager map: guild -> Player, Null: no entry
    player,         \* the Player objects
    queue,          \* each Player's Queue
    inflight,       \* each Player's async calls suspended at an await
    hnf,            \* the running handleNodeFailure call
    sent,           \* the REST requests the last operation sent
    now,            \* Date.now()
    hEvent          \* history: the reason of the track-end event just handled

\* a Queue the application calls directly
VARIABLES
    opQueue,        \* the Queue
    opRet,          \* what the last call returned
    restored,       \* the Queue that fromJSON(toJSON()) built, if it was called last
    hStart,         \* history: the Queue before the first call
    hRets,          \* history: what the calls of next() returned, in order
    hJumpedFrom     \* history: the current track before the jump() just made

opVars == <<opQueue, opRet, restored, hStart, hRets, hJumpedFrom>>

playerVars == <<players, player, queue, inflight, hnf, sent, now, hEvent, opVars>>

vars == <<connVars, nodeVars, playerVars>>

Channels == {"c1", "c2"}
SessionIds == {"s1"}
Tokens == {"t1"}
\* "us1.d", "eu.d" and "1.2" spelled as characters
Endpoints == { <<"u", "s", "1", ".", "d">>, <<"e", "u", ".", "d">>, <<"1", ".", "2">> }
NoEndpoint == <<>>

Letters == {"a", "b", "c", "d", "e", "f", "g", "h", "i", "j", "k", "l", "m", "n",
            "o", "p", "q", "r", "s", "t", "u", "v", "w", "x", "y", "z", "-"}
Digits == {"0", "1", "2", "3", "4", "5", "6", "7", "8", "9"}

\* length of the longest prefix of s, starting after position i, made of characters of class
RECURSIVE RunLength(_, _, _)
RunLength(s, i, class) ==
    IF i < Len(s) /\ s[i + 1] \in class THEN 1 + RunLength(s, i + 1, class) ELSE 0

\* endpoint.match(/^([a-z-]+)\d*\./) : match[1], or <<>> when there is no match
RegionOf(e) ==
    LET l == RunLength(e, 0, Letters)
        d == RunLength(e, l, Digits)
    IN  IF l >= 1 /\ l + d < Len(e) /\ e[l + d + 1] = "."
        THEN SubSeq(e, 1, l)
        ELSE <<>>

\* mutant of ReadyCond: the endpoint is not tested
ReadyCond_NoEndpoint(sid, tok, ep) == sid # Null /\ tok # Null

\* the truthiness test of _checkReady
ReadyCond(sid, tok, ep) == sid # Null /\ tok # Null /\ ep # NoEndpoint

ConnInit ==
    /\ channelId = Null
    /\ sessionId = Null
    /\ token = Null
    /\ endpoint = NoEndpoint
    /\ region = <<>>
    /\ connected = FALSE
    /\ connectTimeout = 0
    /\ pendingConnection = 0
    /\ calls = <<>>
    /\ timers = {}
    /\ emitted = <<>>
    /\ hSessionSet = FALSE
    /\ hTokenSet = FALSE
    /\ hEndpointSet = FALSE
    /\ hAllPresent = FALSE
    /\ hEverConnected = FALSE

\* history bookkeeping shared by every step that is not disconnect()
History(sid, tok, ep) ==
    /\ hAllPresent' = (hAllPresent \/ (sid # Null /\ tok # Null /\ ep # NoEndpoint))
    /\ hEverConnected' = (hEverConnected \/ connected')

\* Connection._checkReady, run after the fields became sid, tok, ep;
\* pre is the list of notifications the caller emitted before it
CheckReady(sid, tok, ep, pre) ==
    IF ReadyCond(sid, tok, ep)
    THEN /\ connected' = TRUE
         /\ timers' = timers \ {connectTimeout}
         /\ connectTimeout' = 0
         /\ calls' = IF pendingConnection # 0
                     THEN [calls EXCEPT ![pendingConnection] = "resolved"]
                     ELSE calls
         /\ pendingConnection' = 0
         /\ emitted' = pre \o <<"ready">>
    ELSE /\ emitted' = pre
         /\ UNCHANGED <<connected, timers, connectTimeout, calls, pendingConnection>>

\* Connection.connect(options)
Connect(ch) ==
    /\ Len(calls) < MaxCalls
    /\ LET k == Len(calls) + 1
       IN  /\ channelId' = ch
           /\ calls' = Append(calls, "pending")
           /\ pendingConnection' = k
           /\ timers' = timers \cup {k}
           /\ connectTimeout' = k
    /\ emitted' = <<"voiceUpdate">>
    /\ UNCHANGED <<sessionId, token, endpoint, region, connected,
                   hSessionSet, hTokenSet, hEndpointSet>>
    /\ History(sessionId, token, endpoint)
    /\ UNCHANGED <<nodeVars, playerVars>>

\* the setTimeout callback armed by connect() call k
ConnectTimeoutFires(k) ==
    /\ k \in timers
    /\ timers' = timers \ {k}
    /\ IF pendingConnection # 0
       THEN /\ calls' = [calls EXCEPT ![pendingConnection] = "rejected"]
            /\ pendingConnection' = 0
       ELSE UNCHANGED <<calls, pendingConnection>>
    /\ emitted' = <<>>
    /\ UNCHANGED <<channelId, sessionId, token, endpoint, region, connected,
                   connectTimeout, hSessionSet, hTokenSet, hEndpointSet>>
    /\ History(sessionId, token, endpoint)
    /\ UNCHANGED <<nodeVars, playerVars>>

\* Connection.disconnect()
ConnDisconnect ==
    /\ channelId' = Null
    /\ sessionId' = Null
    /\ token' = Null
    /\ endpoint' = NoEndpoint
    /\ connected' = FALSE
    /\ timers' = timers \ {connectTimeout}
    /\ connectTimeout' = 0
    /\ emitted' = <<"voiceUpdate">>
    /\ hSessionSet' = FALSE
    /\ hTokenSet' = FALSE
    /\ hEndpointSet' = FALSE
    /\ hAllPresent' = FALSE
    /\ hEverConnected' = FALSE
    /\ UNCHANGED <<region, pendingConnection, calls>>
    /\ UNCHANGED <<nodeVars, playerVars>>

\* Connection.move(channelId)
ConnMove(ch) ==
    /\ channelId' = ch
    /\ emitted' = <<"voiceUpdate">>
    /\ UNCHANGED <<sessionId, token, endpoint, region, connected, connectTimeout,
                   pendingConnection, calls, timers,
                   hSessionSet, hTokenSet, hEndpointSet>>
    /\ History(sessionId, token, endpoint)
    /\ UNCHANGED <<nodeVars, playerVars>>

\* Connection.handleVoiceStateUpdate(state)
HandleVoiceStateUpdate(ch, sid) ==
    /\ IF ch = Null /\ channelId # Null
       THEN /\ channelId' = Null
            /\ connected' = FALSE
            /\ emitted' = <<"disconnect">>
            /\ UNCHANGED <<sessionId, token, endpoint, region, connectTimeout,
                           pendingConnection, calls, timers,
                           hSessionSet, hTokenSet, hEndpointSet>>
            /\ History(sessionId, token, endpoint)
       ELSE /\ sessionId' = sid
            /\ channelId' = ch
            /\ CheckReady(sid, token, endpoint,
                          IF ch # Null /\ channelId # Null /\ ch # channelId
                          THEN <<"move">> ELSE <<>>)
            /\ hSessionSet' = (hSessionSet \/ sid # Null)
            /\ UNCHANGED <<token, endpoint, region, hTokenSet, hEndpointSet>>
            /\ History(sid, token, endpoint)
    /\ UNCHANGED <<nodeVars, playerVars>>

\* Connection.handleVoiceServerUpdate(server)
HandleVoiceServerUpdate(tok, ep) ==
    /\ token' = tok
    /\ endpoint' = ep
    /\ region' = IF ep # NoEndpoint THEN RegionOf(ep) ELSE region
    /\ CheckReady(sessionId, tok, ep, <<>>)
    /\ hTokenSet' = (hTokenSet \/ tok # Null)
    /\ hEndpointSet' = (hEndpointSet \/ ep # NoEndpoint)
    /\ UNCHANGED <<channelId, sessionId, hSessionSet>>
    /\ History(sessionId, tok, ep)
    /\ UNCHANGED <<nodeVars, playerVars>>

ConnStep ==
    \/ \E ch \in Channels : Connect(ch)
    \/ \E k \in 1..MaxCalls : ConnectTimeoutFires(k)
    \/ ConnDisconnect
    \/ \E ch \in Channels : ConnMove(ch)
    \/ \E ch \in Channels \cup {Null}, sid \in SessionIds \cup {Null} :
           HandleVoiceStateUpdate(ch, sid)
    \/ \E tok \in Tokens \cup {Null}, ep \in Endpoints \cup {NoEndpoint} :
           HandleVoiceServerUpdate(tok, ep)

(***************************************************************************)
(* Node pool: data                                                         *)
(***************************************************************************)
Nodes == {"A", "B", "C"}
\* insertion order of the NodeManager map
NodeOrder == <<"A", "B", "C">>
NodeStates == {"DISCONNECTED", "CONNECTING", "CONNECTED", "RECONNECTING", "DESTROYED"}
Priorities == {1, 2}
NoRegion == <<>>
RegionUS == <<"u", "s">>
RegionEU == <<"e", "u">>
RegionSets == {{}, {RegionUS}}

\* stats snapshots; load is cpu.systemLoad in hundredths
NoStats == [present |-> FALSE, players |-> 0, playingPlayers |-> 0, hasCpu |-> FALSE,
            load |-> 0, hasFrames |-> FALSE, deficit |-> 0, nulled |-> 0]
StatsLight == [present |-> TRUE, players |-> 10, playingPlayers |-> 0, hasCpu |-> TRUE,
               load |-> 0, hasFrames |-> FALSE, deficit |-> 0, nulled |-> 0]
StatsHeavy == [present |-> TRUE, players |-> 20, playingPlayers |-> 10, hasCpu |-> TRUE,
               load |-> 50, hasFrames |-> TRUE, deficit |-> 1, nulled |-> 1]
StatsPayloads == {StatsLight, StatsHeavy}

\* the stats payloads a backend sends: counts up to MaxStat, cpu and frameStats
\* present or not, systemLoad 0, 0.5 or 1
SystemLoads == {0, 50, 100}
StatsSpace ==
    {st \in [present : {TRUE}, players : 0..MaxStat, playingPlayers : 0..MaxStat,
             hasCpu : BOOLEAN, load : SystemLoads,
             hasFrames : BOOLEAN, deficit : 0..MaxStat, nulled : 0..MaxStat] :
        /\ ~st.hasCpu => st.load = 0
        /\ ~st.hasFrames => (st.deficit = 0 /\ st.nulled = 0)}

\* mutant of Penalty: nulled frames lower the penalty
Penalty_NulledCredit(st) ==
    IF ~st.present THEN 0
    ELSE st.players * 200 + st.playingPlayers * 300
         + (IF st.hasCpu THEN 2 * st.load * st.load ELSE 0)
         + (IF st.hasFrames THEN st.deficit * 600 - st.nulled * 400 ELSE 0)

\* Node.penalty, times 200 (so that the 1.5 and the squared load stay integers)
Penalty(st) ==
    IF ~st.present THEN 0
    ELSE st.players * 200 + st.playingPlayers * 300
         + (IF st.hasCpu THEN 2 * st.load * st.load ELSE 0)
         + (IF st.hasFrames THEN st.deficit * 600 + st.nulled * 400 ELSE 0)

\* Node.connected
NodeConnected(n) == nodeState[n] = "CONNECTED"

\* mutant of GetConnected: every Node of the pool, whatever its state
GetConnected_AllNodes == SelectSeq(NodeOrder, LAMBDA n : n \in pool)

\* NodeManager.getConnected
GetConnected == SelectSeq(NodeOrder, LAMBDA n : n \in pool /\ NodeConnected(n))

\* mutant of Compare: the penalty is not compared
Compare_PriorityOnly(a, b) == nodePriority[a] - nodePriority[b]

\* the comparator of getBest's sort
Compare(a, b) ==
    IF nodePriority[a] # nodePriority[b]
    THEN nodePriority[a] - nodePriority[b]
    ELSE Penalty(stats[a]) - Penalty(stats[b])

\* Array.prototype.sort is stable: x goes behind every element that does not compare greater
RECURSIVE SortInsert(_, _)
SortInsert(x, sorted) ==
    IF sorted = <<>> THEN <<x>>
    ELSE IF Compare(Head(sorted), x) <= 0
         THEN <<Head(sorted)>> \o SortInsert(x, Tail(sorted))
         ELSE <<x>> \o sorted

RECURSIVE SortNodes(_)
SortNodes(seq) ==
    IF seq = <<>> THEN <<>>
    ELSE SortInsert(seq[Len(seq)], SortNodes(SubSeq(seq, 1, Len(seq) - 1)))

\* mutant of Candidates: the region is ignored
Candidates_AnyRegion(r) == GetConnected

\* NodeManager.getBest(region): the candidates, before they are sorted
Candidates(r) ==
    LET conn == GetConnected
        regionNodes == SelectSeq(conn, LAMBDA n : nodeRegions[n] = {} \/ r \in nodeRegions[n])
    IN  IF r # NoRegion /\ regionNodes # <<>> THEN regionNodes ELSE conn

\* NodeManager.getBest(region)
GetBest(r) ==
    LET sorted == SortNodes(Candidates(r))
    IN  IF sorted = <<>> THEN Null ELSE sorted[1]

(***************************************************************************)
(* Node: sockets and reconnection                                          *)
(***************************************************************************)
NewSocket == [rs |-> "connecting", wasOpen |-> FALSE, tmo |-> TRUE,
              promise |-> "pending", ready |-> FALSE]

\* a socket after its 'close' event: only the promise of the connect() call
\* that created it is still observable
ClosedSocket(sock, prom) == [rs |-> "closed", wasOpen |-> FALSE, tmo |-> FALSE,
                             promise |-> prom, ready |-> FALSE]

\* ws.close(): a connecting or open socket starts closing, otherwise nothing
CloseSocket(socks, i) ==
    IF i # 0 /\ socks[i].rs \in {"connecting", "open"}
    THEN [socks EXCEPT ![i].rs = "closing"]
    ELSE socks

\* Node.connect(): guard of the early return
SocketIsOpen(n) == ws[n] # 0 /\ sockets[n][ws[n]].rs = "open"

\* Node.connect(), up to the returned promise
ConnectNode(n) ==
    IF SocketIsOpen(n)
    THEN UNCHANGED <<nodeState, ws, sockets>>
    ELSE /\ Len(sockets[n]) < MaxSockets
         /\ nodeState' = [nodeState EXCEPT ![n] = "CONNECTING"]
         /\ sockets' = [sockets EXCEPT ![n] = Append(@, NewSocket)]
         /\ ws' = [ws EXCEPT ![n] = Len(sockets[n]) + 1]

\* node.connect() called by the application
NodeConnect(n) ==
    /\ n \in pool
    /\ ConnectNode(n)
    /\ hDisconnected' = [hDisconnected EXCEPT ![n] = FALSE]
    /\ hExhausted' = [hExhausted EXCEPT ![n] = FALSE]
    /\ UNCHANGED <<pool, nodePriority, nodeRegions, retryAmount, nodeSessionId, stats,
                   reconnectAttempts, reconnectTimeout, orphanTimers,
                   best, bestRegion, hBestCalled>>
    /\ UNCHANGED <<connVars, playerVars>>

\* NodeManager.connectAll(): connect() on every Node that is DISCONNECTED
ConnectAll ==
    /\ LET todo == {n \in pool : nodeState[n] = "DISCONNECTED" /\ ~SocketIsOpen(n)}
       IN  /\ todo # {}
           /\ \A n \in todo : Len(sockets[n]) < MaxSockets
           /\ nodeState' = [n \in Nodes |-> IF n \in todo THEN "CONNECTING" ELSE nodeState[n]]
           /\ sockets' = [n \in Nodes |-> IF n \in todo THEN Append(sockets[n], NewSocket)
                                          ELSE sockets[n]]
           /\ ws' = [n \in Nodes |-> IF n \in todo THEN Len(sockets[n]) + 1 ELSE ws[n]]
           /\ hDisconnected' = [n \in Nodes |-> IF n \in todo THEN FALSE ELSE hDisconnected[n]]
           /\ hExhausted' = [n \in Nodes |-> IF n \in todo THEN FALSE ELSE hExhausted[n]]
           /\ UNCHANGED <<pool, nodePriority, nodeRegions, retryAmount, nodeSessionId, stats,
                          reconnectAttempts, reconnectTimeout, orphanTimers,
                          best, bestRegion, hBestCalled>>
    /\ UNCHANGED <<connVars, playerVars>>

\* Node.disconnect(code, reason)
NodeDisconnect(n) ==
    /\ n \in pool
    /\ reconnectTimeout' = [reconnectTimeout EXCEPT ![n] = FALSE]
    /\ sockets' = [sockets EXCEPT ![n] = CloseSocket(@, ws[n])]
    /\ ws' = [ws EXCEPT ![n] = 0]
    /\ nodeState' = [nodeState EXCEPT ![n] = "DISCONNECTED"]
    /\ hDisconnected' = [hDisconnected EXCEPT ![n] = TRUE]
    /\ UNCHANGED <<pool, nodePriority, nodeRegions, retryAmount, nodeSessionId, stats,
                   reconnectAttempts, orphanTimers, best, bestRegion, hBestCalled, hExhausted>>
    /\ UNCHANGED <<connVars, playerVars>>

\* NodeManager.remove(name): Node.destroy() and delete from the map
NodeRemove(n) ==
    /\ n \in pool
    /\ reconnectTimeout' = [reconnectTimeout EXCEPT ![n] = FALSE]
    /\ sockets' = [sockets EXCEPT ![n] = CloseSocket(@, ws[n])]
    /\ ws' = [ws EXCEPT ![n] = 0]
    /\ nodeState' = [nodeState EXCEPT ![n] = "DESTROYED"]
    /\ pool' = pool \ {n}
    /\ hDisconnected' = [hDisconnected EXCEPT ![n] = FALSE]
    /\ UNCHANGED <<nodePriority, nodeRegions, retryAmount, nodeSessionId, stats,
                   reconnectAttempts, orphanTimers, best, bestRegion, hBestCalled, hExhausted>>
    /\ UNCHANGED <<connVars, playerVars>>

\* mutant of CanReconnect: one attempt more than retryAmount
CanReconnect_Inclusive(n) ==
    nodeState[n] # "DESTROYED" /\ reconnectAttempts[n] <= retryAmount[n]

\* Node._onClose: the test that guards _scheduleReconnect
CanReconnect(n) ==
    nodeState[n] # "DESTROYED" /\ reconnectAttempts[n] < retryAmount[n]

\* Node._onClose(code, reason), with _scheduleReconnect
OnClose(n) ==
    IF CanReconnect(n)
    THEN /\ nodeState' = [nodeState EXCEPT ![n] = "RECONNECTING"]
         /\ reconnectAttempts' = [reconnectAttempts EXCEPT ![n] = @ + 1]
         /\ orphanTimers' = [orphanTimers EXCEPT ![n] = IF reconnectTimeout[n] THEN @ + 1 ELSE @]
         /\ reconnectTimeout' = [reconnectTimeout EXCEPT ![n] = TRUE]
         /\ UNCHANGED hExhausted
    ELSE /\ hExhausted' = [hExhausted EXCEPT ![n] = (nodeState[n] # "DESTROYED")]
         /\ UNCHANGED <<nodeState, reconnectAttempts, orphanTimers, reconnectTimeout>>

\* socket 'open': clearTimeout, _onOpen, resolve
SockOpen(n, i) ==
    /\ i \in 1..Len(sockets[n])
    /\ sockets[n][i].rs = "connecting"
    /\ sockets' = [sockets EXCEPT ![n][i] = [@ EXCEPT !.rs = "open", !.wasOpen = TRUE,
                                             !.tmo = FALSE, !.promise = "resolved"]]
    /\ reconnectAttempts' = [reconnectAttempts EXCEPT ![n] = 0]
    /\ hExhausted' = [hExhausted EXCEPT ![n] = FALSE]
    /\ UNCHANGED <<pool, nodeState, nodePriority, nodeRegions, retryAmount, nodeSessionId,
                   stats, ws, reconnectTimeout, orphanTimers, best, bestRegion, hBestCalled,
                   hDisconnected>>
    /\ UNCHANGED <<connVars, playerVars>>

\* socket 'error' followed by 'close', for a socket that never opened
\* (the connection attempt failed, or close() aborted the handshake)
SockFail(n, i) ==
    /\ i \in 1..Len(sockets[n])
    /\ sockets[n][i].rs = "connecting"
       \/ (sockets[n][i].rs = "closing" /\ ~sockets[n][i].wasOpen)
    /\ sockets' = [sockets EXCEPT ![n][i] =
                      ClosedSocket(@, IF nodeState[n] = "CONNECTING" /\ @.promise = "pending"
                                      THEN "rejected" ELSE @.promise)]
    /\ OnClose(n)
    /\ UNCHANGED <<pool, nodePriority, nodeRegions, retryAmount, nodeSessionId, stats, ws,
                   best, bestRegion, hBestCalled, hDisconnected>>
    /\ UNCHANGED <<connVars, playerVars>>

\* socket 'close' of a socket that was open
SockClose(n, i) ==
    /\ i \in 1..Len(sockets[n])
    /\ sockets[n][i].wasOpen /\ sockets[n][i].rs \in {"open", "closing"}
    /\ sockets' = [sockets EXCEPT ![n][i] = ClosedSocket(@, @.promise)]
    /\ OnClose(n)
    /\ UNCHANGED <<pool, nodePriority, nodeRegions, retryAmount, nodeSessionId, stats, ws,
                   best, bestRegion, hBestCalled, hDisconnected>>
    /\ UNCHANGED <<connVars, playerVars>>

\* socket 'message' with op ready: Node._handleReady
SockReady(n, i) ==
    /\ i \in 1..Len(sockets[n])
    /\ sockets[n][i].wasOpen /\ sockets[n][i].rs \in {"open", "closing"}
    /\ ~sockets[n][i].ready
    /\ sockets' = [sockets EXCEPT ![n][i].ready = TRUE]
    /\ nodeSessionId' = [nodeSessionId EXCEPT ![n] = i]
    /\ nodeState' = [nodeState EXCEPT ![n] = "CONNECTED"]
    /\ UNCHANGED <<pool, nodePriority, nodeRegions, retryAmount, stats, ws,
                   reconnectAttempts, reconnectTimeout, orphanTimers, best, bestRegion,
                   hBestCalled, hDisconnected, hExhausted>>
    /\ UNCHANGED <<connVars, playerVars>>

\* socket 'message' with op stats: Node._handleStats
SockStats(n, i, st) ==
    /\ i \in 1..Len(sockets[n])
    /\ sockets[n][i].wasOpen /\ sockets[n][i].rs \in {"open", "closing"}
    /\ sockets[n][i].ready
    /\ stats' = [stats EXCEPT ![n] = st]
    /\ UNCHANGED <<pool, nodeState, nodePriority, nodeRegions, retryAmount, nodeSessionId,
                   ws, reconnectAttempts, reconnectTimeout, orphanTimers, sockets,
                   best, bestRegion, hBestCalled, hDisconnected, hExhausted>>
    /\ UNCHANGED <<connVars, playerVars>>

\* the 15 s timer of connect(): closes this._ws if that is not open, and rejects
SockTimeout(n, i) ==
    /\ i \in 1..Len(sockets[n])
    /\ sockets[n][i].tmo
    /\ LET cur == ws[n]
           off == [sockets[n] EXCEPT ![i].tmo = FALSE]
       IN  IF cur = 0
           THEN \* this._ws is null: the callback throws before it rejects
                sockets' = [sockets EXCEPT ![n] = off]
           ELSE IF sockets[n][cur].rs # "open"
                THEN sockets' = [sockets EXCEPT ![n] =
                                    [CloseSocket(off, cur) EXCEPT
                                        ![i].promise = IF @ = "pending" THEN "rejected" ELSE @]]
                ELSE sockets' = [sockets EXCEPT ![n] = off]
    /\ UNCHANGED <<pool, nodeState, nodePriority, nodeRegions, retryAmount, nodeSessionId,
                   stats, ws, reconnectAttempts, reconnectTimeout, orphanTimers,
                   best, bestRegion, hBestCalled, hDisconnected, hExhausted>>
    /\ UNCHANGED <<connVars, playerVars>>

\* the timer armed by _scheduleReconnect fires: connect()
ReconnectFires(n, latest) ==
    /\ IF latest
       THEN /\ reconnectTimeout[n]
            /\ reconnectTimeout' = [reconnectTimeout EXCEPT ![n] = FALSE]
            /\ UNCHANGED orphanTimers
       ELSE /\ orphanTimers[n] > 0
            /\ orphanTimers' = [orphanTimers EXCEPT ![n] = @ - 1]
            /\ UNCHANGED reconnectTimeout
    /\ ConnectNode(n)
    /\ UNCHANGED <<pool, nodePriority, nodeRegions, retryAmount, nodeSessionId, stats,
                   reconnectAttempts, best, bestRegion, hBestCalled, hDisconnected, hExhausted>>
    /\ UNCHANGED <<connVars, playerVars>>

\* nodes.getBest(region) called by the application
CallGetBest(r) ==
    /\ best' = GetBest(r)
    /\ bestRegion' = r
    /\ hBestCalled' = TRUE
    /\ UNCHANGED <<pool, nodeState, nodePriority, nodeRegions, retryAmount, nodeSessionId,
                   stats, ws, reconnectAttempts, reconnectTimeout, orphanTimers, sockets,
                   hDisconnected, hExhausted>>
    /\ UNCHANGED <<connVars, playerVars>>

\* the Nodes the application configures in NodeSpec
Configured == {"A"}

\* a pool of Nodes as the constructor and NodeManager.add leave it
NodeInit ==
    /\ pool = Configured
    /\ nodeState = [n \in Nodes |-> "DISCONNECTED"]
    /\ nodePriority = [n \in Nodes |-> 1]
    /\ nodeRegions = [n \in Nodes |-> IF n = "B" THEN {RegionUS} ELSE {}]
    /\ retryAmount \in [Nodes -> 0..MaxRetry]
    /\ \A n \in Nodes \ Configured : retryAmount[n] = 0
    /\ nodeSessionId = [n \in Nodes |-> 0]
    /\ stats = [n \in Nodes |-> NoStats]
    /\ ws = [n \in Nodes |-> 0]
    /\ reconnectAttempts = [n \in Nodes |-> 0]
    /\ reconnectTimeout = [n \in Nodes |-> FALSE]
    /\ orphanTimers = [n \in Nodes |-> 0]
    /\ sockets = [n \in Nodes |-> <<>>]
    /\ best = Null
    /\ bestRegion = NoRegion
    /\ hBestCalled = FALSE
    /\ hDisconnected = [n \in Nodes |-> FALSE]
    /\ hExhausted = [n \in Nodes |-> FALSE]

\* any pool the program can hold: every Node in any state, with any
\* priority, region list and stats snapshot
BestInit ==
    /\ pool \in SUBSET Nodes
    /\ nodeState \in [Nodes -> NodeStates]
    /\ nodePriority \in [Nodes -> Priorities]
    /\ nodeRegions \in [Nodes -> RegionSets]
    /\ stats \in [Nodes -> StatsPayloads \cup {NoStats}]
    /\ \A n \in Nodes \ pool :
           /\ nodeState[n] = "DESTROYED"
           /\ nodePriority[n] = 1
           /\ nodeRegions[n] = {}
           /\ stats[n] = NoStats
    /\ retryAmount = [n \in Nodes |-> 0]
    /\ nodeSessionId = [n \in Nodes |-> 0]
    /\ ws = [n \in Nodes |-> 0]
    /\ reconnectAttempts = [n \in Nodes |-> 0]
    /\ reconnectTimeout = [n \in Nodes |-> FALSE]
    /\ orphanTimers = [n \in Nodes |-> 0]
    /\ sockets = [n \in Nodes |-> <<>>]
    /\ best = Null
    /\ bestRegion = NoRegion
    /\ hBestCalled = FALSE
    /\ hDisconnected = [n \in Nodes |-> FALSE]
    /\ hExhausted = [n \in Nodes |-> FALSE]

\* a socket that opened and delivered the ready message
ReadySocket == [rs |-> "open", wasOpen |-> TRUE, tmo |-> FALSE,
                promise |-> "resolved", ready |-> TRUE]

\* the Nodes of the pool in PlayerSpec and FailoverSpec
Up == {"A", "B"}

\* the pool after connectAll() succeeded on every Node: sockets open, ready received
UpInit ==
    /\ pool = Up
    /\ nodeState = [n \in Nodes |-> IF n \in Up THEN "CONNECTED" ELSE "DISCONNECTED"]
    /\ nodePriority = [n \in Nodes |-> 1]
    /\ nodeRegions = [n \in Nodes |-> IF n = "B" THEN {RegionUS} ELSE {}]
    /\ retryAmount = [n \in Nodes |-> IF n = "A" THEN MaxRetry ELSE 0]
    /\ nodeSessionId = [n \in Nodes |-> IF n \in Up THEN 1 ELSE 0]
    /\ stats = [n \in Nodes |-> NoStats]
    /\ ws = [n \in Nodes |-> IF n \in Up THEN 1 ELSE 0]
    /\ reconnectAttempts = [n \in Nodes |-> 0]
    /\ reconnectTimeout = [n \in Nodes |-> FALSE]
    /\ orphanTimers = [n \in Nodes |-> 0]
    /\ sockets = [n \in Nodes |-> IF n \in Up THEN <<ReadySocket>> ELSE <<>>]
    /\ best = Null
    /\ bestRegion = NoRegion
    /\ hBestCalled = FALSE
    /\ hDisconnected = [n \in Nodes |-> FALSE]
    /\ hExhausted = [n \in Nodes |-> FALSE]

\* two connected Nodes of equal priority, each with no stats yet or with any
\* stats payload received
PenaltyInit ==
    /\ pool = Up
    /\ nodeState = [n \in Nodes |-> IF n \in Up THEN "CONNECTED" ELSE "DISCONNECTED"]
    /\ nodePriority = [n \in Nodes |-> 1]
    /\ nodeRegions = [n \in Nodes |-> {}]
    /\ retryAmount = [n \in Nodes |-> 0]
    /\ nodeSessionId = [n \in Nodes |-> IF n \in Up THEN 1 ELSE 0]
    /\ stats \in [Nodes -> StatsSpace \cup {NoStats}]
    /\ stats["C"] = NoStats
    /\ ws = [n \in Nodes |-> IF n \in Up THEN 1 ELSE 0]
    /\ reconnectAttempts = [n \in Nodes |-> 0]
    /\ reconnectTimeout = [n \in Nodes |-> FALSE]
    /\ orphanTimers = [n \in Nodes |-> 0]
    /\ sockets = [n \in Nodes |-> IF n \in Up THEN <<ReadySocket>> ELSE <<>>]
    /\ best = Null
    /\ bestRegion = NoRegion
    /\ hBestCalled = FALSE
    /\ hDisconnected = [n \in Nodes |-> FALSE]
    /\ hExhausted = [n \in Nodes |-> FALSE]

NodeStep ==
    \/ \E n \in Nodes : NodeConnect(n)
    \/ ConnectAll
    \/ \E n \in Nodes : NodeDisconnect(n)
    \/ \E n \in Nodes : NodeRemove(n)
    \/ \E n \in Nodes, i \in 1..MaxSockets : SockOpen(n, i)
    \/ \E n \in Nodes, i \in 1..MaxSockets : SockFail(n, i)
    \/ \E n \in Nodes, i \in 1..MaxSockets : SockClose(n, i)
    \/ \E n \in Nodes, i \in 1..MaxSockets : SockReady(n, i)
    \/ \E n \in Nodes, i \in 1..MaxSockets : SockStats(n, i, StatsLight)
    \/ \E n \in Nodes, i \in 1..MaxSockets : SockTimeout(n, i)
    \/ \E n \in Nodes, latest \in BOOLEAN : ReconnectFires(n, latest)

(***************************************************************************)
(* Queue (structures/Queue): a queue is a record, its methods are          *)
(* operators that return the queue they leave behind                       *)
(***************************************************************************)
Tracks == {"T1", "T2"}
MaxHistorySize == 50

NewQueue == [tracks |-> <<>>, priorityTracks |-> <<>>, current |-> Null, previous |-> Null,
             loop |-> "off", autoplay |-> FALSE, autoplayProvider |-> "none",
             history |-> <<>>]

\* Queue._addToHistory(track)
AddToHistory(h, t) ==
    LET pushed == Append(h, t)
    IN  IF Len(pushed) > MaxHistorySize THEN Tail(pushed) ELSE pushed

\* Queue.next(): this.priorityTracks.length > 0
HasPriority_Never(q) == FALSE
HasPriority(q) == q.priorityTracks # <<>>

\* Queue.next(): the queue afterwards and the returned track
QueueNext(q) ==
    LET saved == IF q.current # Null
                 THEN [q EXCEPT !.previous = q.current,
                                !.history = AddToHistory(q.history, q.current)]
                 ELSE q
    IN  IF saved.loop = "track" /\ saved.current # Null
        THEN [q |-> saved, ret |-> saved.current]
        ELSE IF HasPriority(saved)
        THEN [q |-> [saved EXCEPT !.current = Head(saved.priorityTracks),
                                  !.priorityTracks = Tail(saved.priorityTracks)],
              ret |-> Head(saved.priorityTracks)]
        ELSE IF saved.tracks # <<>>
        THEN [q |-> [saved EXCEPT !.current = Head(saved.tracks),
                                  !.tracks = IF saved.loop = "queue" /\ saved.previous # Null
                                             THEN Append(Tail(saved.tracks), saved.previous)
                                             ELSE Tail(saved.tracks)],
              ret |-> Head(saved.tracks)]
        ELSE IF saved.loop = "queue" /\ saved.previous # Null
        THEN [q |-> [saved EXCEPT !.current = saved.previous], ret |-> saved.previous]
        ELSE [q |-> [saved EXCEPT !.current = Null], ret |-> Null]

\* Queue.add(tracks) with no options: append to the main lane
QueueAdd(q, ts) == [q EXCEPT !.tracks = @ \o ts]

\* Queue.add(tracks, {priority: true})
QueueAddPriority(q, ts) == [q EXCEPT !.priorityTracks = @ \o ts]

\* Queue.at(index), index counted from 0
QueueAt(q, i) ==
    IF i < 0 THEN Null
    ELSE IF i < Len(q.priorityTracks) THEN q.priorityTracks[i + 1]
    ELSE IF i - Len(q.priorityTracks) < Len(q.tracks)
         THEN q.tracks[i - Len(q.priorityTracks) + 1]
         ELSE Null

\* Queue.clear(includePriority)
QueueClear(q, includePriority) ==
    [q EXCEPT !.tracks = <<>>,
              !.priorityTracks = IF includePriority THEN <<>> ELSE @]

\* Queue.destroy()
QueueDestroy(q) ==
    [QueueClear(q, TRUE) EXCEPT !.history = <<>>, !.current = Null, !.previous = Null]

\* history after Queue._addToHistory on each track of seq in turn
RECURSIVE AddAllToHistory(_, _)
AddAllToHistory(h, seq) ==
    IF seq = <<>> THEN h ELSE AddAllToHistory(AddToHistory(h, Head(seq)), Tail(seq))

\* mutant of JumpPriorityCount: nothing is put back into the priority lane
JumpPriorityCount_Zero(q, position) == 0

\* Queue.jump: Math.max(0, this.priorityTracks.length - position - 1)
JumpPriorityCount(q, position) ==
    LET diff == Len(q.priorityTracks) - position - 1
    IN  IF diff > 0 THEN diff ELSE 0

\* Queue.jump(position), position counted from 0: the queue afterwards and the
\* returned track
QueueJump(q, position) ==
    IF position < 0 \/ position >= Len(q.tracks) + Len(q.priorityTracks)
    THEN [q |-> q, ret |-> Null]
    ELSE LET saved == IF q.current # Null THEN AddToHistory(q.history, q.current)
                                          ELSE q.history
             combined == q.priorityTracks \o q.tracks
             skipped == SubSeq(combined, 1, position)
             rest == SubSeq(combined, position + 2, Len(combined))
             priorityCount == JumpPriorityCount(q, position)
         IN  [q |-> [q EXCEPT !.history = AddAllToHistory(saved, skipped),
                              !.current = combined[position + 1],
                              !.priorityTracks = SubSeq(rest, 1, priorityCount),
                              !.tracks = SubSeq(rest, priorityCount + 1, Len(rest))],
              ret |-> combined[position + 1]]

\* Queue.back(): the queue afterwards and the returned track
QueueBack(q) ==
    IF q.history = <<>>
    THEN [q |-> q, ret |-> Null]
    ELSE LET n == Len(q.history)
             popped == SubSeq(q.history, 1, n - 1)
         IN  [q |-> [q EXCEPT !.priorityTracks = IF q.current # Null
                                                 THEN <<q.current>> \o @ ELSE @,
                              !.current = q.history[n],
                              !.history = popped,
                              !.previous = IF popped = <<>> THEN Null
                                           ELSE popped[Len(popped)]],
              ret |-> q.history[n]]

(***************************************************************************)
(* Track (structures/Track) and Queue serialization                        *)
(***************************************************************************)
Undefined == "undefined"

\* this.encoded = data.encoded || data.track
Encoded(data) ==
    IF "encoded" \in DOMAIN data /\ data.encoded \notin {Null, Undefined, ""}
    THEN data.encoded
    ELSE IF "track" \in DOMAIN data THEN data.track ELSE Undefined

\* this.author = data.info?.author || 'Unknown Artist'
Author(info) ==
    IF "author" \in DOMAIN info /\ info.author # "" THEN info.author ELSE "Unknown Artist"

\* this.duration = data.info?.length || data.info?.duration || 0
Duration_NoLength(info) ==
    IF "duration" \in DOMAIN info THEN info.duration ELSE 0
Duration(info) ==
    IF "length" \in DOMAIN info /\ info.length # 0 THEN info.length
    ELSE IF "duration" \in DOMAIN info THEN info.duration
    ELSE 0

\* this.isSeekable = data.info?.isSeekable ?? true
IsSeekable(info) ==
    IF "isSeekable" \in DOMAIN info THEN info.isSeekable ELSE TRUE

\* new Track(data): the fields of the object; addedAt is Date.now() of the
\* construction, at says when that is
TrackConstruct(data, at) ==
    [encoded |-> Encoded(data), author |-> Author(data.info),
     duration |-> Duration(data.info), isSeekable |-> IsSeekable(data.info),
     addedAt |-> at]

\* Track.toJSON()
TrackToJSON(t) ==
    [encoded |-> t.encoded,
     info |-> [author |-> t.author, length |-> t.duration, isSeekable |-> t.isSeekable]]

\* Track.fromJSON(json)
TrackFromJSON(json) ==
    TrackConstruct([encoded |-> json.encoded, info |-> json.info], "restored")

\* the tracks the application queues, as the backend (or Track.fromUrl) gives them
OpTracks == {"T1", "T2", "T3"}
RawTrack ==
    [T1 |-> [encoded |-> "e1", info |-> [author |-> "a1", length |-> 3, isSeekable |-> TRUE]],
     T2 |-> [encoded |-> Null, info |-> [author |-> "Unknown"]],
     T3 |-> [track |-> "e3", info |-> [author |-> "", duration |-> 2, isSeekable |-> FALSE]]]

\* the Track object a queued track is
TrackObject(t) == TrackConstruct(RawTrack[t], "created")

\* Queue.toJSON(); a track or null is a sequence of at most one element
QueueToJSON(q) ==
    LET json(t) == TrackToJSON(TrackObject(t))
        map(seq) == [i \in 1..Len(seq) |-> json(seq[i])]
        opt(t) == IF t # Null THEN <<json(t)>> ELSE <<>>
    IN  [tracks |-> map(q.tracks), priorityTracks |-> map(q.priorityTracks),
         current |-> opt(q.current), previous |-> opt(q.previous),
         loop |-> q.loop, autoplay |-> q.autoplay, history |-> map(q.history)]

\* Queue.fromJSON(data): the fields it assigns
QueueFromJSON(data) ==
    LET map(seq) == [i \in 1..Len(seq) |-> TrackFromJSON(seq[i])]
    IN  [tracks |-> map(data.tracks), priorityTracks |-> map(data.priorityTracks),
         current |-> map(data.current), previous |-> map(data.previous),
         loop |-> IF data.loop # "" THEN data.loop ELSE "off",
         autoplay |-> data.autoplay, history |-> map(data.history)]

\* Queue.getAutoplayTracks(): whether the provider is invoked, and with which track
GetAutoplayTracks(q) ==
    IF q.autoplayProvider = "none" \/ q.current = Null
    THEN [invoked |-> FALSE, arg |-> Null]
    ELSE [invoked |-> TRUE, arg |-> q.current]

(***************************************************************************)
(* Player (structures/Player, managers/PlayerManager)                      *)
(***************************************************************************)
PlayerIds == {"p1", "p2", "p3"}
Guilds == {"g1", "g2"}
\* iteration order of the PlayerManager map
GuildOrder == <<"g1", "g2">>
LoopModes == {"off", "track", "queue"}
TrackEndReason == {"finished", "loadFailed", "stopped", "replaced", "cleanup"}
\* the voice part of a request body: the three values and the keys that are
\* present (a key whose value is undefined is left out of the JSON body)
VoiceKeys == {"sessionId", "token", "endpoint"}
NoVoice == [sessionId |-> Null, token |-> Null, endpoint |-> NoEndpoint, has |-> {}]

\* the Player's Connection, as far as the Player reads it
NewConnection == [channelId |-> Null, sessionId |-> Null, token |-> Null,
                  endpoint |-> NoEndpoint, region |-> NoRegion, connected |-> FALSE,
                  pending |-> FALSE, timer |-> FALSE]

\* a Player object as its constructor leaves it
NewPlayer(g, n) == [guildId |-> g, state |-> "CONNECTING", node |-> n, playing |-> FALSE,
                    paused |-> FALSE, connected |-> FALSE, position |-> 0,
                    positionTimestamp |-> 0, inactivityTimer |-> "none",
                    orphanTimers |-> 0, hRearmed |-> FALSE, hPaused |-> FALSE,
                    preloadedTrack |-> Null, conn |-> NewConnection]

\* a Player object that has not been constructed
NoPlayer == NewPlayer(Null, Null)

\* a REST request as the Node sends it
Request(n, g, kind, track, pos, voice) ==
    [node |-> n, guild |-> g, kind |-> kind, track |-> track, position |-> pos, voice |-> voice]

\* an async call suspended at its await: op names the call, node the Node whose
\* REST answer it waits for, arg and num what its continuation needs
Pending(op, n, arg, num) == [op |-> op, node |-> n, arg |-> arg, num |-> num]

\* the part of the state a Player operation works on
World == [player |-> player, queue |-> queue, inflight |-> inflight, players |-> players,
          hnf |-> hnf, sent |-> <<>>, hEvent |-> Null]

\* Player.estimatedPosition
EstimatedPosition(pl) ==
    IF ~pl.playing \/ pl.paused
    THEN pl.position
    ELSE pl.position + (now - pl.positionTimestamp)

\* Player._resetInactivityTimer(): the timer _inactivityTimer refers to is cleared
ResetInactivityTimer(w, p) ==
    [w EXCEPT !.player[p].inactivityTimer = "none", !.player[p].hRearmed = FALSE]

\* setTimeout in _startInactivityTimer: _inactivityTimer refers to the new timer;
\* a timer it referred to before, if not cleared, stays armed with no reference
\* (orphanTimers)
ArmInactivityTimer(w, p, reason) ==
    LET old == w.player[p].inactivityTimer
    IN  [w EXCEPT !.player[p].inactivityTimer = reason,
                  !.player[p].orphanTimers = IF old # "none" THEN @ + 1 ELSE @]

StartInactivityTimer_NoReset(w, p, reason) ==
    [ArmInactivityTimer(w, p, reason) EXCEPT
        !.player[p].hRearmed = (w.player[p].inactivityTimer # "none")]

\* Player._startInactivityTimer(reason); inactivity.enabled is the default true;
\* hRearmed: history, a timer was armed when this one was set
StartInactivityTimer(w, p, reason) ==
    [ArmInactivityTimer(ResetInactivityTimer(w, p), p, reason) EXCEPT
        !.player[p].hRearmed = (w.player[p].inactivityTimer # "none")]

\* the tail of Player._handleQueueEnd: idle with the empty-queue timeout
QueueEndIdle(w, p) ==
    StartInactivityTimer([w EXCEPT !.player[p].playing = FALSE,
                                   !.player[p].state = "STOPPED"], p, "empty")

\* Player._handleQueueEnd up to its await
HandleQueueEnd(w, p) ==
    LET q == w.queue[p]
    IN  IF q.autoplay /\ q.autoplayProvider # "none"
        THEN LET call == GetAutoplayTracks(q)
             IN  IF call.invoked
                 THEN [w EXCEPT !.inflight[p] = Append(@, Pending("autoplay", Null, call.arg, 0))]
                 ELSE QueueEndIdle(w, p)
        ELSE QueueEndIdle(w, p)

\* Player.play after the track is chosen: the update sent to the bound Node
SendPlay(w, p, startTime, tag) ==
    LET pl == w.player[p]
    IN  IF pl.node = Null
        THEN w
        ELSE [w EXCEPT !.sent = Append(@, Request(pl.node, pl.guildId, "play",
                                                  w.queue[p].current, startTime, NoVoice)),
                       !.inflight[p] = Append(@, Pending("play", pl.node, tag, 0))]

\* history: the pending play of a skip() remembers the Queue as it was when
\* play() was called without a track (hBefore)
Remember(w, p, tag, before) ==
    LET pending == w.inflight[p]
    IN  IF w.player[p].node = Null \/ tag # "skip"
        THEN w
        ELSE [w EXCEPT !.inflight[p] =
                 [pending EXCEPT ![Len(pending)] = @ @@ [hBefore |-> before]]]

\* Player.play(track, {startTime}) up to its await; track = Null: advance the queue
Play(w, p, track, startTime, tag) ==
    IF track = Null
    THEN LET r == QueueNext(w.queue[p])
             advanced == [w EXCEPT !.queue[p] = r.q]
         IN  IF r.ret = Null
             THEN HandleQueueEnd(advanced, p)
             ELSE Remember(SendPlay(advanced, p, startTime, tag), p, tag, w.queue[p])
    ELSE SendPlay([w EXCEPT !.queue[p].current = track], p, startTime, tag)

\* Player.play after its await: flags, inactivity timer, preload hint
PlayDone(w, p) ==
    LET nextTrack == QueueAt(w.queue[p], 0)
    IN  [ResetInactivityTimer(w, p) EXCEPT
            !.player[p].playing = TRUE,
            !.player[p].paused = FALSE,
            !.player[p].state = "PLAYING",
            !.player[p].preloadedTrack = IF nextTrack # Null THEN nextTrack ELSE @]

\* the voice object Player._sendVoiceUpdate builds from data.sessionId,
\* data.token and data.endpoint
VoiceBody(data) ==
    [sessionId |-> IF "sessionId" \in DOMAIN data THEN data.sessionId ELSE Null,
     token |-> IF "token" \in DOMAIN data THEN data.token ELSE Null,
     endpoint |-> IF "endpoint" \in DOMAIN data THEN data.endpoint ELSE NoEndpoint,
     has |-> VoiceKeys \cap DOMAIN data]

\* Player._sendVoiceUpdate(data) up to its await
SendVoiceUpdate(w, p, data, op, arg, num) ==
    LET pl == w.player[p]
        voice == VoiceBody(data)
        n == IF pl.node = Null THEN GetBest(pl.conn.region) ELSE pl.node
    IN  IF n = Null
        THEN w
        ELSE [w EXCEPT !.player[p].node = n,
                       !.sent = Append(@, Request(n, pl.guildId, "voice", Null, 0, voice)),
                       !.inflight[p] = Append(@, Pending(op, n, arg, num))]

\* the data of the 'ready' event Connection._checkReady emits
ReadyPayload(c) ==
    [sessionId |-> c.sessionId, token |-> c.token, endpoint |-> c.endpoint, region |-> c.region]

\* Connection.getVoicePayload()
GetVoicePayload(c) ==
    [sessionId |-> c.sessionId, event |-> [token |-> c.token, endpoint |-> c.endpoint]]

\* the end of a migrateNode call: handleNodeFailure goes on with its loop
MigrateEnd(w, p, num) ==
    IF num = 1 /\ w.hnf.active /\ w.hnf.current = p
    THEN [w EXCEPT !.hnf.current = Null]
    ELSE w

\* mutant of MigrateRaise: the error leaves the loop of handleNodeFailure
MigrateRaise_Abort(w, p, num) ==
    IF num = 1 /\ w.hnf.active /\ w.hnf.current = p
    THEN [w EXCEPT !.hnf.current = Null, !.hnf.remaining = <<>>, !.hnf.raised = @ \cup {p}]
    ELSE w

\* a migrateNode call rejects: the catch block of handleNodeFailure logs the
\* error (raised: history, the Players whose migration failed) and the loop
\* goes on
MigrateRaise(w, p, num) ==
    IF num = 1 /\ w.hnf.active /\ w.hnf.current = p
    THEN [w EXCEPT !.hnf.current = Null, !.hnf.raised = @ \cup {p}]
    ELSE w

\* Player.migrateNode after the voice update: re-issue play at the estimated position
MigratePlay(w, p, num) ==
    LET pl == w.player[p]
    IN  IF w.queue[p].current # Null /\ pl.playing /\ pl.node # Null
        THEN Play(w, p, w.queue[p].current, EstimatedPosition(pl),
                  IF num = 1 THEN "failover" ELSE "migrate")
        ELSE MigrateEnd(w, p, num)

\* Player.migrateNode after the old Node answered: rebind, restore the voice state
MigrateRebind(w, p, newNode, num) ==
    LET bound == [w EXCEPT !.player[p].node = newNode]
    IN  IF bound.player[p].connected
        THEN SendVoiceUpdate(bound, p, GetVoicePayload(bound.player[p].conn),
                             "migrateVoice", newNode, num)
        ELSE MigratePlay(bound, p, num)

\* Player.migrateNode(newNode) up to its first await
MigrateNode(w, p, newNode, num) ==
    LET pl == w.player[p]
    IN  IF pl.node = Null
        THEN MigrateRebind(w, p, newNode, num)
        ELSE [w EXCEPT !.sent = Append(@, Request(pl.node, pl.guildId, "destroy",
                                                  Null, 0, NoVoice)),
                       !.inflight[p] = Append(@, Pending("migrateDestroy", pl.node, newNode, num))]

\* NodeManager.handleNodeFailure: the loop over playersToMigrate, up to the next await
RECURSIVE FailureLoop(_)
FailureLoop(w) ==
    IF w.hnf.remaining = <<>>
    THEN [w EXCEPT !.hnf.active = FALSE, !.hnf.current = Null]
    ELSE LET p == Head(w.hnf.remaining)
             newNode == GetBest(w.player[p].conn.region)
             rest == [w EXCEPT !.hnf.remaining = Tail(@), !.hnf.visited = @ \cup {p}]
         IN  IF newNode = Null
             THEN FailureLoop([rest EXCEPT !.hnf.raised = @ \cup {p}])
             ELSE LET started == MigrateNode([rest EXCEPT !.hnf.current = p], p, newNode, 1)
                  IN  IF started.hnf.current = Null THEN FailureLoop(started) ELSE started

\* the continuation of handleNodeFailure once the migration it awaits has ended
ResumeFailureLoop(w) ==
    IF w.hnf.active /\ w.hnf.current = Null THEN FailureLoop(w) ELSE w

\* Player.disconnect(): Connection.disconnect() and the Player's flags
Disconnect(w, p) ==
    [w EXCEPT !.player[p].conn = [@ EXCEPT !.channelId = Null, !.sessionId = Null,
                                           !.token = Null, !.endpoint = NoEndpoint,
                                           !.connected = FALSE, !.timer = FALSE],
              !.player[p].connected = FALSE,
              !.player[p].state = "DISCONNECTED"]

\* Player.destroy() after the remote delete: disconnect, tear down, leave the registry
DestroyDone(w, p) ==
    LET g == w.player[p].guildId
    IN  [Disconnect(w, p) EXCEPT
            !.queue[p] = QueueDestroy(@),
            !.player[p].state = "DESTROYED",
            !.players[g] = Null]

\* Player.destroy() up to its await
Destroy(w, p) ==
    LET pl == w.player[p]
        cleared == ResetInactivityTimer(w, p)
    IN  IF pl.node # Null /\ NodeConnected(pl.node)
        THEN [cleared EXCEPT !.sent = Append(@, Request(pl.node, pl.guildId, "destroy",
                                                        Null, 0, NoVoice)),
                             !.inflight[p] = Append(@, Pending("destroy", pl.node, Null, 0))]
        ELSE DestroyDone(cleared, p)


(***************************************************************************)
(* Player: operations                                                      *)
(***************************************************************************)
\* the caps that keep the behaviours finite
Bounded(w) ==
    \A p \in PlayerIds :
        /\ Len(w.inflight[p]) <= MaxInflight
        /\ Len(w.queue[p].history) <= MaxHistory
        /\ Len(w.queue[p].tracks) + Len(w.queue[p].priorityTracks) <= MaxQueue

\* the state an operation leaves behind
Commit(w) ==
    /\ Bounded(w)
    /\ player' = w.player
    /\ queue' = w.queue
    /\ inflight' = w.inflight
    /\ players' = w.players
    /\ hnf' = w.hnf
    /\ sent' = w.sent
    /\ hEvent' = w.hEvent
    /\ UNCHANGED <<now, connVars, nodeVars, opVars>>

\* the application only drives Players it has not destroyed
Usable(p) == player[p].guildId # Null /\ player[p].state # "DESTROYED"

\* Node._handleEvent / _handlePlayerUpdate: the payload's guild has a Player,
\* and some socket delivers the message
Delivered(p) ==
    /\ player[p].guildId # Null
    /\ players[player[p].guildId] = p
    /\ \E n \in Nodes : SocketIsOpen(n)

\* PlayerManager.create(options) up to the voice handshake
CreatePlayer(p, g, n) ==
    /\ player[p].guildId = Null
    /\ players[g] = Null
    /\ LET node == IF n # Null THEN n ELSE GetBest(NoRegion)
       IN  /\ node # Null
           /\ Commit([World EXCEPT
                         !.player[p] = [NewPlayer(g, node) EXCEPT
                                           !.conn.channelId = "c1",
                                           !.conn.pending = TRUE,
                                           !.conn.timer = TRUE],
                         !.players[g] = p])

\* both voice updates have arrived: Connection._checkReady, the 'ready'
\* listener (_sendVoiceUpdate) and the continuation of Player.connect()
VoiceReady(p, ep) ==
    /\ player[p].guildId # Null
    /\ players[player[p].guildId] = p
    /\ player[p].conn.channelId # Null
    /\ LET c == player[p].conn
           ready == [c EXCEPT !.sessionId = "s1", !.token = "t1", !.endpoint = ep,
                              !.region = RegionOf(ep), !.connected = TRUE,
                              !.pending = FALSE, !.timer = FALSE]
           w == [World EXCEPT !.player[p].conn = ready]
           told == SendVoiceUpdate(w, p, ReadyPayload(ready), "voice", Null, 0)
       IN  Commit(IF c.pending
                  THEN [told EXCEPT !.player[p].connected = TRUE,
                                    !.player[p].state = "CONNECTED"]
                  ELSE told)

\* the handshake timer of Connection.connect() fires: Player.connect() rejects
VoiceTimeout(p) ==
    /\ player[p].conn.timer
    /\ Commit([World EXCEPT !.player[p].conn.timer = FALSE,
                            !.player[p].conn.pending = FALSE])

\* a voice-state update without channel: Connection emits 'disconnect'
VoiceChannelGone(p) ==
    /\ player[p].guildId # Null
    /\ players[player[p].guildId] = p
    /\ player[p].conn.channelId # Null
    /\ Commit([World EXCEPT !.player[p].conn.channelId = Null,
                            !.player[p].conn.connected = FALSE,
                            !.player[p].connected = FALSE,
                            !.player[p].playing = FALSE])

\* player.disconnect()
PlayerDisconnect(p) ==
    /\ Usable(p)
    /\ player[p].state # "DISCONNECTED"
    /\ Commit(Disconnect(World, p))

\* player.play(track), and player.play() with track = Null
PlayerPlay(p, track) ==
    /\ Usable(p)
    /\ Commit(Play(World, p, track, 0, "api"))

\* player.skip(): play() without a track
PlayerSkip(p) ==
    /\ Usable(p)
    /\ Commit(Play(World, p, Null, 0, "skip"))

\* player.pause()
PlayerPause(p) ==
    /\ Usable(p)
    /\ LET pl == player[p]
       IN  Commit(IF ~pl.playing \/ pl.node = Null
                  THEN World
                  ELSE [World EXCEPT
                           !.sent = Append(@, Request(pl.node, pl.guildId, "pause",
                                                      Null, 0, NoVoice)),
                           !.inflight[p] = Append(@, Pending("pause", pl.node, Null, 0))])

\* player.resume()
PlayerResume(p) ==
    /\ Usable(p)
    /\ LET pl == player[p]
       IN  Commit(IF ~pl.paused \/ pl.node = Null
                  THEN World
                  ELSE [World EXCEPT
                           !.sent = Append(@, Request(pl.node, pl.guildId, "resume",
                                                      Null, 0, NoVoice)),
                           !.inflight[p] = Append(@, Pending("resume", pl.node, Null, 0))])

\* player.stop(clearQueue)
PlayerStop(p, clearQueue) ==
    /\ Usable(p)
    /\ LET pl == player[p]
       IN  Commit(IF pl.node = Null
                  THEN World
                  ELSE [World EXCEPT
                           !.sent = Append(@, Request(pl.node, pl.guildId, "stop",
                                                      Null, 0, NoVoice)),
                           !.inflight[p] = Append(@, Pending("stop", pl.node,
                                                   IF clearQueue THEN "clear" ELSE "keep", 0))])

\* player.destroy()
PlayerDestroy(p) ==
    /\ Usable(p)
    /\ Commit(Destroy(World, p))

\* PlayerManager.destroy(guildId): destroy() on the registered Player
ManagerDestroy(g) ==
    /\ players[g] # Null
    /\ Commit(Destroy(World, players[g]))

\* the inactivity timer fires: destroy()
InactivityFires(p) ==
    /\ player[p].inactivityTimer # "none"
    /\ Commit(Destroy(World, p))

\* player.migrateNode(newNode) called by the application; hPaused: history, the
\* paused flag at the call
PlayerMigrate(p, n) ==
    /\ Usable(p)
    /\ n \in pool
    /\ Commit(MigrateNode([World EXCEPT !.player[p].hPaused = player[p].paused], p, n, 0))

\* player.queue.add(track)
QueueAddTrack(p, t) ==
    /\ Usable(p)
    /\ Commit([World EXCEPT !.queue[p] = QueueAdd(@, <<t>>)])

\* player.queue.setLoop(mode)
QueueSetLoop(p, mode) ==
    /\ Usable(p)
    /\ queue[p].loop # mode
    /\ Commit([World EXCEPT !.queue[p].loop = mode])

\* player.queue.setAutoplay(enabled, provider); provider "none": keep the provider
QueueSetAutoplay(p, enabled, provider) ==
    /\ Usable(p)
    /\ LET set == [queue[p] EXCEPT !.autoplay = enabled,
                                   !.autoplayProvider = IF provider # "none" THEN provider ELSE @]
       IN  /\ set # queue[p]
           /\ Commit([World EXCEPT !.queue[p] = set])

\* Player._handleTrackStart
TrackStart(p) ==
    /\ Delivered(p)
    /\ Commit([World EXCEPT !.player[p].playing = TRUE,
                            !.player[p].paused = FALSE,
                            !.player[p].state = "PLAYING"])

\* the reasons after which Player._handleTrackEnd plays the next track
AutoAdvance_WithReplaced == {"finished", "loadFailed", "replaced"}
AutoAdvance == {"finished", "loadFailed"}

\* Player._handleTrackEnd(track, reason)
TrackEnd(p, reason) ==
    /\ Delivered(p)
    /\ LET w == [World EXCEPT !.hEvent = reason]
       IN  Commit(IF reason \in AutoAdvance
                  THEN Play(w, p, Null, 0, "api")
                  ELSE w)

\* Player._handleTrackStuck
TrackStuck(p) ==
    /\ Delivered(p)
    /\ Commit(Play(World, p, Null, 0, "api"))

\* Player._handleTrackException
TrackException(p) ==
    /\ Delivered(p)
    /\ Commit(Play([World EXCEPT !.hEvent = "exception"], p, Null, 0, "api"))

\* Player._handleWebSocketClosed(code, reason, byRemote)
WebSocketClosed(p, code) ==
    /\ Delivered(p)
    /\ Commit(IF code = 4014
              THEN [World EXCEPT !.player[p].connected = FALSE,
                                 !.player[p].playing = FALSE]
              ELSE World)

\* Player._handleUpdate(state): position, time (the backend's clock agrees with
\* Date.now()) and connected flag of the payload
PlayerUpdate(p, pos, conn) ==
    /\ Delivered(p)
    /\ Commit([World EXCEPT !.player[p].position = pos,
                            !.player[p].positionTimestamp = now,
                            !.player[p].connected = conn])

\* seq without its i-th element
RemoveAt(seq, i) == [j \in 1..(Len(seq) - 1) |-> IF j < i THEN seq[j] ELSE seq[j + 1]]

\* the continuation of an async Player call once what it awaits has settled;
\* ok: fulfilled, otherwise rejected
Continue(w, p, k, ok) ==
    CASE k.op = "play" ->
            LET done == IF ok THEN PlayDone(w, p) ELSE w
                num == IF k.arg = "failover" THEN 1 ELSE 0
            IN  IF k.arg \in {"failover", "migrate"}
                THEN IF ok THEN MigrateEnd(done, p, num) ELSE MigrateRaise(done, p, num)
                ELSE done
      [] k.op = "pause" ->
            IF ok
            THEN StartInactivityTimer([w EXCEPT !.player[p].paused = TRUE,
                                                !.player[p].state = "PAUSED"], p, "paused")
            ELSE w
      [] k.op = "resume" ->
            IF ok
            THEN ResetInactivityTimer([w EXCEPT !.player[p].paused = FALSE,
                                                !.player[p].state = "PLAYING"], p)
            ELSE w
      [] k.op = "stop" ->
            IF ok
            THEN StartInactivityTimer(
                     [w EXCEPT !.player[p].playing = FALSE,
                               !.player[p].paused = FALSE,
                               !.player[p].position = 0,
                               !.player[p].state = "STOPPED",
                               !.queue[p] = IF k.arg = "clear"
                                            THEN QueueClear([@ EXCEPT !.current = Null], TRUE)
                                            ELSE [@ EXCEPT !.current = Null]], p, "stopped")
            ELSE w
      [] k.op = "destroy" -> DestroyDone(w, p)
      [] k.op = "migrateDestroy" -> MigrateRebind(w, p, k.arg, k.num)
      [] k.op = "migrateVoice" ->
            IF ok THEN MigratePlay(w, p, k.num) ELSE MigrateRaise(w, p, k.num)
      [] k.op = "autoplay" ->
            IF ok /\ w.queue[p].autoplayProvider = "tracks"
            THEN Play([w EXCEPT !.queue[p] = QueueAdd(@, <<"T2">>)], p, Null, 0, "api")
            ELSE QueueEndIdle(w, p)
      [] OTHER -> w

\* an awaited call settles: the Node answers a REST request (ok) or the
\* request fails; the autoplay provider returns or throws
Settles(p, i, ok) ==
    /\ i \in 1..Len(inflight[p])
    /\ LET k == inflight[p][i]
       IN  /\ (ok /\ k.node # Null) => nodeSessionId[k.node] # 0
           /\ Commit(ResumeFailureLoop(Continue([World EXCEPT !.inflight[p] = RemoveAt(@, i)],
                                               p, k, ok)))

\* nodes.handleNodeFailure(failedNode) up to its first await (one call at a time)
HandleNodeFailure(n) ==
    /\ ~hnf.active
    /\ LET bound(g) == players[g] # Null /\ player[players[g]].node = n
           toMigrate == SelectSeq(GuildOrder, bound)
       IN  /\ toMigrate # <<>>
           /\ Commit(FailureLoop([World EXCEPT
                                     !.hnf = [active |-> TRUE, failed |-> n, current |-> Null,
                                              remaining |-> [i \in 1..Len(toMigrate) |->
                                                                players[toMigrate[i]]],
                                              todo |-> {players[toMigrate[i]] :
                                                           i \in 1..Len(toMigrate)},
                                              visited |-> {}, raised |-> {}]]))

\* time passes
Tick ==
    /\ now < MaxNow
    /\ now' = now + 1
    /\ sent' = <<>>
    /\ hEvent' = Null
    /\ UNCHANGED <<player, queue, inflight, players, hnf, connVars, nodeVars, opVars>>

PlayerInit ==
    /\ players = [g \in Guilds |-> Null]
    /\ player = [p \in PlayerIds |-> NoPlayer]
    /\ queue = [p \in PlayerIds |-> NewQueue]
    /\ inflight = [p \in PlayerIds |-> <<>>]
    /\ hnf = [active |-> FALSE, failed |-> Null, current |-> Null, remaining |-> <<>>,
              todo |-> {}, visited |-> {}, raised |-> {}]
    /\ sent = <<>>
    /\ now = 0
    /\ hEvent = Null

\* no Queue is driven directly
OpIdle ==
    /\ opQueue = NewQueue
    /\ opRet = Null
    /\ restored = <<>>
    /\ hStart = NewQueue
    /\ hRets = <<>>
    /\ hJumpedFrom = Null

(***************************************************************************)
(* A Queue called directly                                                 *)
(***************************************************************************)
\* sequences over S of length at most n
RECURSIVE SeqsUpTo(_, _)
SeqsUpTo(S, n) ==
    IF n = 0 THEN {<<>>}
    ELSE LET shorter == SeqsUpTo(S, n - 1)
         IN  shorter \cup {Append(seq, x) : seq \in {t \in shorter : Len(t) = n - 1}, x \in S}

\* a Queue after add / addPriority / setLoop / setAutoplay calls and a
\* player.play(track)
OpInit ==
    /\ \E pr \in SeqsUpTo(OpTracks, MaxLane), tr \in SeqsUpTo(OpTracks, MaxLane),
          cur \in OpTracks \cup {Null}, mode \in LoopModes, auto \in BOOLEAN :
            opQueue = [NewQueue EXCEPT !.priorityTracks = pr, !.tracks = tr,
                                       !.current = cur, !.loop = mode, !.autoplay = auto]
    /\ hStart = opQueue
    /\ opRet = Null
    /\ restored = <<>>
    /\ hRets = <<>>
    /\ hJumpedFrom = Null

\* what a direct Queue call leaves alone
OpFrame == UNCHANGED <<connVars, nodeVars, players, player, queue, inflight, hnf, sent,
                       now, hEvent, hStart>>

\* queue.next()
CallNext ==
    /\ Len(hRets) < MaxOps
    /\ LET r == QueueNext(opQueue)
       IN  /\ opQueue' = r.q
           /\ opRet' = r.ret
           /\ hRets' = Append(hRets, r.ret)
    /\ restored' = <<>>
    /\ hJumpedFrom' = Null
    /\ OpFrame

\* queue.jump(position)
CallJump(position) ==
    /\ LET r == QueueJump(opQueue, position)
       IN  /\ opQueue' = r.q
           /\ opRet' = r.ret
           /\ hJumpedFrom' = IF r.ret # Null THEN opQueue.current ELSE Null
    /\ restored' = <<>>
    /\ UNCHANGED hRets
    /\ OpFrame

\* queue.back()
CallBack ==
    /\ LET r == QueueBack(opQueue)
       IN  /\ opQueue' = r.q
           /\ opRet' = r.ret
    /\ restored' = <<>>
    /\ hJumpedFrom' = Null
    /\ UNCHANGED hRets
    /\ OpFrame

\* queue.add(track): the added tracks are returned
CallAdd(t) ==
    /\ Len(opQueue.tracks) < MaxLane
    /\ opQueue' = QueueAdd(opQueue, <<t>>)
    /\ opRet' = t
    /\ restored' = <<>>
    /\ hJumpedFrom' = Null
    /\ UNCHANGED hRets
    /\ OpFrame

\* queue.add(track, {priority: true})
CallAddPriority(t) ==
    /\ Len(opQueue.priorityTracks) < MaxLane
    /\ opQueue' = QueueAddPriority(opQueue, <<t>>)
    /\ opRet' = t
    /\ restored' = <<>>
    /\ hJumpedFrom' = Null
    /\ UNCHANGED hRets
    /\ OpFrame

\* combined.splice(to, 0, track), to counted from 0
InsertAt(seq, to, x) == SubSeq(seq, 1, to) \o <<x>> \o SubSeq(seq, to + 1, Len(seq))

\* mutant of Resplit: the whole view goes to the main lane
Resplit_AllMain(q, combined) ==
    [q EXCEPT !.priorityTracks = <<>>, !.tracks = combined]

\* Queue.move / Queue.swap, "Rebuild queues": the view is cut at the length the
\* priority lane has
Resplit(q, combined) ==
    [q EXCEPT !.priorityTracks = SubSeq(combined, 1, Len(q.priorityTracks)),
              !.tracks = SubSeq(combined, Len(q.priorityTracks) + 1, Len(combined))]

\* Queue.move(from, to): the queue afterwards and the returned flag
QueueMove(q, from, to) ==
    LET size == Len(q.tracks) + Len(q.priorityTracks)
        combined == q.priorityTracks \o q.tracks
    IN  IF from < 0 \/ from >= size \/ to < 0 \/ to >= size
        THEN [q |-> q, ret |-> "false"]
        ELSE [q |-> Resplit(q, InsertAt(RemoveAt(combined, from + 1), to, combined[from + 1])),
              ret |-> "true"]

\* Queue.swap(index1, index2): the queue afterwards and the returned flag
QueueSwap(q, index1, index2) ==
    LET size == Len(q.tracks) + Len(q.priorityTracks)
        combined == q.priorityTracks \o q.tracks
    IN  IF index1 < 0 \/ index1 >= size \/ index2 < 0 \/ index2 >= size
        THEN [q |-> q, ret |-> "false"]
        ELSE [q |-> Resplit(q, [combined EXCEPT ![index1 + 1] = combined[index2 + 1],
                                                ![index2 + 1] = combined[index1 + 1]]),
              ret |-> "true"]

\* queue.move(from, to)
CallMove(from, to) ==
    /\ LET r == QueueMove(opQueue, from, to)
       IN  /\ opQueue' = r.q
           /\ opRet' = r.ret
    /\ restored' = <<>>
    /\ hJumpedFrom' = Null
    /\ UNCHANGED hRets
    /\ OpFrame

\* queue.swap(index1, index2)
CallSwap(index1, index2) ==
    /\ LET r == QueueSwap(opQueue, index1, index2)
       IN  /\ opQueue' = r.q
           /\ opRet' = r.ret
    /\ restored' = <<>>
    /\ hJumpedFrom' = Null
    /\ UNCHANGED hRets
    /\ OpFrame

\* other.fromJSON(queue.toJSON())
CallRoundTrip ==
    /\ restored' = <<QueueFromJSON(QueueToJSON(opQueue))>>
    /\ hJumpedFrom' = Null
    /\ UNCHANGED <<opQueue, opRet, hRets>>
    /\ OpFrame

\* the application moves around in the Queue and saves it
OpStep ==
    \/ \E position \in 0..(MaxLane + MaxLane) : CallJump(position)
    \/ CallBack
    \/ CallRoundTrip

\* every Track object is in the Queue once: in one lane or current
NoDuplicates(q) ==
    LET all == q.priorityTracks \o q.tracks \o (IF q.current # Null THEN <<q.current>> ELSE <<>>)
    IN  \A i \in 1..Len(all), j \in 1..Len(all) : all[i] = all[j] => i = j

\* a Queue under queue-loop, before the first next()
RotateInit ==
    /\ OpInit
    /\ NoDuplicates(opQueue)
    /\ opQueue.loop = "queue"
    /\ ~opQueue.autoplay

\* the Player takes tracks with next() while the application adds tracks
RotateStep ==
    \/ CallNext
    \/ \E t \in OpTracks : CallAdd(t)
    \/ \E t \in OpTracks : CallAddPriority(t)

\* a Queue that holds every track once, before the first call
WalkInit ==
    /\ OpInit
    /\ NoDuplicates(opQueue)
    /\ ~opQueue.autoplay

\* the application walks through the Queue
WalkStep ==
    \/ CallNext
    \/ CallBack
    \/ \E position \in 0..(MaxLane + MaxLane) : CallJump(position)

\* a Queue with loop off, before the first call
ArrangeInit ==
    /\ OpInit
    /\ opQueue.loop = "off"
    /\ ~opQueue.autoplay

\* the indices the application passes to move() and swap()
Indices == (0 - 1)..(MaxLane + MaxLane)

\* the application rearranges the Queue
ArrangeStep ==
    \/ \E from \in Indices, to \in Indices : CallMove(from, to)
    \/ \E index1 \in Indices, index2 \in Indices : CallSwap(index1, index2)

\* the life of one Player: voice handshake, playback commands, backend events,
\* timers and destruction
LifeStep(p, g) ==
    \/ CreatePlayer(p, g, Null)
    \/ VoiceReady(p, <<"u", "s", "1", ".", "d">>)
    \/ VoiceTimeout(p)
    \/ VoiceChannelGone(p)
    \/ PlayerDisconnect(p)
    \/ \E t \in {"T1", Null} : PlayerPlay(p, t)
    \/ PlayerPause(p)
    \/ PlayerResume(p)
    \/ PlayerStop(p, FALSE)
    \/ PlayerDestroy(p)
    \/ InactivityFires(p)
    \/ TrackStart(p)
    \/ \E r \in {"finished", "stopped"} : TrackEnd(p, r)
    \/ WebSocketClosed(p, 4014)
    \/ \E i \in 1..MaxInflight, ok \in BOOLEAN : Settles(p, i, ok)

\* one Player and its Queue: what is played next
QueueStep(p, g) ==
    \/ \E n \in {"A", Null} : CreatePlayer(p, g, n)
    \/ \E t \in Tracks \cup {Null} : PlayerPlay(p, t)
    \/ PlayerStop(p, TRUE)
    \/ \E t \in Tracks : QueueAddTrack(p, t)
    \/ \E mode \in LoopModes : QueueSetLoop(p, mode)
    \/ \E e \in BOOLEAN, pr \in {"none", "tracks"} : QueueSetAutoplay(p, e, pr)
    \/ TrackEnd(p, "loadFailed")
    \/ TrackStuck(p)
    \/ TrackException(p)
    \/ \E i \in 1..MaxInflight, ok \in BOOLEAN : Settles(p, i, ok)

\* one Player whose application queues tracks and skips
SkipStep(p, g) ==
    \/ CreatePlayer(p, g, "A")
    \/ \E t \in Tracks : QueueAddTrack(p, t)
    \/ \E mode \in LoopModes : QueueSetLoop(p, mode)
    \/ PlayerSkip(p)
    \/ \E i \in 1..MaxInflight, ok \in BOOLEAN : Settles(p, i, ok)

\* one Player and the track events of its backend
EventStep(p, g) ==
    \/ CreatePlayer(p, g, "A")
    \/ \E t \in {"T1", Null} : PlayerPlay(p, t)
    \/ \E t \in Tracks : QueueAddTrack(p, t)
    \/ \E mode \in LoopModes : QueueSetLoop(p, mode)
    \/ \E r \in TrackEndReason : TrackEnd(p, r)
    \/ TrackException(p)
    \/ \E i \in 1..MaxInflight, ok \in BOOLEAN : Settles(p, i, ok)

\* one voice-connected Player that the application moves between the Nodes
MigrateStep(p, g) ==
    \/ CreatePlayer(p, g, "A")
    \/ VoiceReady(p, <<"u", "s", "1", ".", "d">>)
    \/ \E t \in {"T1"} : PlayerPlay(p, t)
    \/ PlayerPause(p)
    \/ \E n \in Up : PlayerMigrate(p, n)
    \/ \E i \in 1..MaxInflight, ok \in BOOLEAN : Settles(p, i, ok)

\* the registry of one guild: the application creates and destroys through the
\* PlayerManager; a new Player is a new object
RegistryStep(g) ==
    \/ \E p \in PlayerIds : CreatePlayer(p, g, Null)
    \/ \E p \in PlayerIds : VoiceReady(p, <<"u", "s", "1", ".", "d">>)
    \/ \E p \in PlayerIds : VoiceTimeout(p)
    \/ ManagerDestroy(g)
    \/ \E p \in PlayerIds, i \in 1..MaxInflight, ok \in BOOLEAN : Settles(p, i, ok)

\* two Players on a pool in which Node A can fail: what the Players and the
\* application do
FailoverPlayerStep ==
    \/ \E p \in {"p1", "p2"} : CreatePlayer(p, IF p = "p1" THEN "g1" ELSE "g2", Null)
    \/ \E p \in {"p1", "p2"} : VoiceReady(p, <<"u", "s", "1", ".", "d">>)
    \/ PlayerPlay("p1", "T1")
    \/ \E pos \in 0..MaxPos : PlayerUpdate("p1", pos, TRUE)
    \/ \E n \in Up : HandleNodeFailure(n)
    \/ \E p \in PlayerIds, i \in 1..MaxInflight, ok \in BOOLEAN : Settles(p, i, ok)
    \/ Tick

\* two Players on Node A; the socket of A closes, B is disconnected or not, and
\* the application calls handleNodeFailure
FailStep ==
    \/ \E p \in {"p1", "p2"} : CreatePlayer(p, IF p = "p1" THEN "g1" ELSE "g2", "A")
    \/ \E p \in {"p1", "p2"} : VoiceReady(p, <<"u", "s", "1", ".", "d">>)
    \/ \E p \in {"p1", "p2"} : PlayerPlay(p, "T1")
    \/ SockClose("A", 1)
    \/ NodeDisconnect("B")
    \/ HandleNodeFailure("A")
    \/ \E p \in PlayerIds, i \in 1..MaxInflight, ok \in BOOLEAN : Settles(p, i, ok)

\* the socket of Node A closes and its backend stays down: every reconnect fails
FailoverNodeStep ==
    \/ \E i \in 1..MaxSockets : SockClose("A", i)
    \/ ReconnectFires("A", TRUE)
    \/ \E i \in 1..MaxSockets : SockFail("A", i)

(***************************************************************************)
(* Specifications                                                          *)
(***************************************************************************)
\* a Connection on its own
ConnSpecInit == ConnInit /\ NodeInit /\ PlayerInit /\ OpIdle
ConnSpec == ConnSpecInit /\ [][ConnStep]_vars

\* the handshake timers are setTimeout callbacks: an armed timer fires
FairConnSpec == ConnSpec /\ \A k \in 1..MaxCalls : WF_vars(ConnectTimeoutFires(k))

\* a Node, its sockets and its reconnect timers
NodeSpecInit == ConnInit /\ NodeInit /\ PlayerInit /\ OpIdle
NodeSpec == NodeSpecInit /\ [][NodeStep]_vars

\* what the runtime does by itself happens: the 15 s timer of a connect() call
\* fires unless it was cleared, and a socket that is closing emits its events
FairNodeSpec ==
    /\ NodeSpec
    /\ \A i \in 1..MaxSockets :
           /\ WF_vars(SockTimeout("A", i))
           /\ WF_vars(SockFail("A", i) /\ sockets["A"][i].rs = "closing")
           /\ WF_vars(SockClose("A", i) /\ sockets["A"][i].rs = "closing")

\* getBest over every pool
BestSpecInit == ConnInit /\ BestInit /\ PlayerInit /\ OpIdle
BestStep == \E r \in {NoRegion, RegionUS, RegionEU} : CallGetBest(r)
BestSpec == BestSpecInit /\ [][BestStep]_vars

\* getBest on two Nodes that differ in their stats only
PenaltySpecInit == ConnInit /\ PenaltyInit /\ PlayerInit /\ OpIdle
PenaltySpec == PenaltySpecInit /\ [][CallGetBest(NoRegion)]_vars

\* one Player on a pool whose Nodes are up
PlayerSpecInit == ConnInit /\ UpInit /\ PlayerInit /\ OpIdle
PlayerSpec == PlayerSpecInit /\ [][LifeStep("p1", "g1")]_vars

\* one Player's Queue on a pool whose Nodes are up
QueueSpecInit == ConnInit /\ UpInit /\ PlayerInit /\ OpIdle
QueueSpec == QueueSpecInit /\ [][QueueStep("p1", "g1")]_vars

\* one Player that skips through its Queue
SkipSpecInit == ConnInit /\ UpInit /\ PlayerInit /\ OpIdle
SkipSpec == SkipSpecInit /\ [][SkipStep("p1", "g1")]_vars

\* one Player under the track events of its backend
EventSpecInit == ConnInit /\ UpInit /\ PlayerInit /\ OpIdle
EventSpec == EventSpecInit /\ [][EventStep("p1", "g1")]_vars

\* one Player migrated by the application
MigrateSpecInit == ConnInit /\ UpInit /\ PlayerInit /\ OpIdle
MigrateSpec == MigrateSpecInit /\ [][MigrateStep("p1", "g1")]_vars

\* a Queue on which only next() is called
NextSpecInit == ConnInit /\ UpInit /\ PlayerInit /\ OpInit
NextSpec == NextSpecInit /\ [][CallNext]_vars

\* a Queue under queue-loop on which next() and add() are called
RotateSpecInit == ConnInit /\ UpInit /\ PlayerInit /\ RotateInit
RotateSpec == RotateSpecInit /\ [][RotateStep]_vars

\* a Queue on which next(), back() and jump() are called
WalkSpecInit == ConnInit /\ UpInit /\ PlayerInit /\ WalkInit
WalkSpec == WalkSpecInit /\ [][WalkStep]_vars

\* a Queue on which move() and swap() are called
ArrangeSpecInit == ConnInit /\ UpInit /\ PlayerInit /\ ArrangeInit
ArrangeSpec == ArrangeSpecInit /\ [][ArrangeStep]_vars

\* a Queue on which jump(), back() and the serialization are called
OpSpecInit == ConnInit /\ UpInit /\ PlayerInit /\ OpInit
OpSpec == OpSpecInit /\ [][OpStep]_vars

\* the PlayerManager's entry of one guild
RegistrySpecInit == ConnInit /\ UpInit /\ PlayerInit /\ OpIdle
RegistrySpec == RegistrySpecInit /\ [][RegistryStep("g1")]_vars

\* two Players while Node A fails
FailoverSpecInit == ConnInit /\ UpInit /\ PlayerInit /\ OpIdle
FailoverStep == FailoverPlayerStep \/ FailoverNodeStep
FailoverSpec == FailoverSpecInit /\ [][FailoverStep]_vars

\* handleNodeFailure called for Node A with two Players bound to it
FailSpecInit == ConnInit /\ UpInit /\ PlayerInit /\ OpIdle
FailSpec == FailSpecInit /\ [][FailStep]_vars

\* what the program does by itself happens: an awaited REST call settles, an
\* armed reconnect timer fires; nothing obliges the application to call anything
FairFailoverSpec ==
    /\ FailoverSpec
    /\ WF_vars(\E p \in PlayerIds, i \in 1..MaxInflight, ok \in BOOLEAN : Settles(p, i, ok))
    /\ WF_vars(ReconnectFires("A", TRUE))

(***************************************************************************)
(* Claims about Connection                                                 *)
(***************************************************************************)

\* C7: every Connection.connect() call eventually settles (resolves on a
\* complete handshake, otherwise rejects when its timeout elapses), for every
\* interleaving of the two updates, disconnect() and the timer.
C7_ConnectSettles ==
    \A k \in 1..MaxCalls :
        (k <= Len(calls) /\ calls[k] = "pending")
            ~> (k <= Len(calls) /\ calls[k] # "pending")

\* C8 (as stated): connected=true has been reached since the last disconnect()
\* if and only if session id, token and endpoint have each been set at least
\* once since then.
C8_ConnectedIffEachSetOnce ==
    hEverConnected <=> (hSessionSet /\ hTokenSet /\ hEndpointSet)

\* C8 (amended): connected=true has been reached since the last disconnect()
\* if and only if session id, token and endpoint have been non-empty at the
\* same time since then; each having been set once is necessary only.
C8_ConnectedIffAllPresentAtOnce ==
    /\ hEverConnected <=> hAllPresent
    /\ hEverConnected => (hSessionSet /\ hTokenSet /\ hEndpointSet)

\* C8 witness: a handshake completed after an earlier disconnect-free prefix
\* in which a connect() call was resolved by the readiness check.
C8_Witness ==
    /\ connected /\ hEverConnected /\ hAllPresent
    /\ \E k \in 1..Len(calls) : calls[k] = "resolved"
    /\ emitted # <<>> /\ emitted[Len(emitted)] = "ready"

\* C9: connected=true implies that session id, token and endpoint are all
\* non-empty, also after an update that carries an empty field.
C9_ConnectedImpliesCredentials ==
    connected => (sessionId # Null /\ token # Null /\ endpoint # NoEndpoint)

(***************************************************************************)
(* Claims about the Node pool                                              *)
(***************************************************************************)

\* C3: for every pool and every region argument, getBest() never returns a
\* Node that is not connected, and it returns none exactly when no Node of
\* the pool is connected.
C3_BestIsConnected ==
    hBestCalled =>
        /\ best # Null => (best \in pool /\ nodeState[best] = "CONNECTED")
        /\ best = Null <=> ~(\E n \in pool : nodeState[n] = "CONNECTED")

\* C3 witness: getBest(region) returned a Node from a pool that also holds
\* a Node that is not connected.
C3_Witness ==
    /\ hBestCalled /\ best # Null /\ bestRegion # NoRegion
    /\ \E n \in pool : nodeState[n] # "CONNECTED"

\* C4: the Node getBest() returns is minimal among the candidates under
\* (priority ascending, penalty ascending): no candidate has a lower
\* priority, and none of equal priority has a lower penalty.
C4_BestIsMinimal ==
    (hBestCalled /\ best # Null) =>
        LET cands == Candidates(bestRegion)
        IN  \A i \in 1..Len(cands) :
                /\ nodePriority[cands[i]] >= nodePriority[best]
                /\ nodePriority[cands[i]] = nodePriority[best]
                       => Penalty(stats[cands[i]]) >= Penalty(stats[best])

\* C4 witness: two connected Nodes of equal priority; the one getBest()
\* returned stands later in the pool and has the smaller penalty.
C4_Witness ==
    /\ hBestCalled /\ best = "B" /\ bestRegion = NoRegion
    /\ "A" \in pool /\ nodeState["A"] = "CONNECTED"
    /\ nodePriority["A"] = nodePriority["B"]
    /\ Penalty(stats["A"]) > Penalty(stats["B"])

\* C5: after an explicit Node.disconnect() the Node is disconnected and
\* stays so, with no reconnect scheduled or made, until connect() is called
\* again, also when the socket's close event arrives after disconnect()
\* returned.
C5_DisconnectStays ==
    \A n \in Nodes :
        hDisconnected[n] =>
            /\ nodeState[n] = "DISCONNECTED"
            /\ ~reconnectTimeout[n]
            /\ ws[n] = 0

\* C6: a Node that has used up all its reconnect attempts without a
\* successful connection (its last socket closed, no reconnect timer armed,
\* no socket left that could still open) is in state disconnected.
C6_ExhaustedIsDisconnected ==
    \A n \in Nodes :
        (/\ hExhausted[n]
         /\ retryAmount[n] > 0 /\ reconnectAttempts[n] = retryAmount[n]
         /\ ~reconnectTimeout[n] /\ orphanTimers[n] = 0
         /\ \A i \in 1..Len(sockets[n]) : sockets[n][i].rs = "closed")
            => nodeState[n] = "DISCONNECTED"

(***************************************************************************)
(* Claims about the Player                                                 *)
(***************************************************************************)

\* the Player is bound to Node A, whose reconnect attempts are exhausted,
\* while Node B is connected
Stranded(p) ==
    /\ player[p].guildId # Null /\ players[player[p].guildId] = p
    /\ player[p].node = "A"
    /\ hExhausted["A"] /\ ~SocketIsOpen("A")
    /\ NodeConnected("B")

\* C1: when a Node's socket closed and its reconnect attempts are exhausted
\* while another Node is connected, every Player bound to the failed Node is
\* eventually rebound.
C1_FailoverRebinds ==
    \A p \in PlayerIds : Stranded(p) ~> ~Stranded(p)

\* C2: play() without a track, on a Queue whose lanes are empty, with
\* autoplay enabled and a provider that returns a track: the provider is
\* invoked with the track that just finished.
C2_AutoplayInvoked ==
    [][(/\ PlayerPlay("p1", Null)
        /\ queue["p1"].current # Null
        /\ queue["p1"].tracks = <<>> /\ queue["p1"].priorityTracks = <<>>
        /\ queue["p1"].loop = "off"
        /\ queue["p1"].autoplay /\ queue["p1"].autoplayProvider = "tracks")
       => \E i \in 1..Len(inflight'["p1"]) :
              /\ inflight'["p1"][i].op = "autoplay"
              /\ inflight'["p1"][i].arg = queue["p1"].current]_vars

\* C10: once a Player's state is destroyed it never changes again, and its
\* playing flag is never set again.
C10_DestroyedIsTerminal ==
    [][\A p \in PlayerIds :
           player[p].state = "DESTROYED"
               => /\ player'[p].state = "DESTROYED"
                  /\ player'[p].playing => player[p].playing]_vars

\* C11: a guild never has two live Players: of the Player objects constructed for
\* one guild at most one is not destroyed.
C11_OnePlayerPerGuild ==
    \A g \in Guilds :
        Cardinality({p \in PlayerIds : player[p].guildId = g /\ player[p].state # "DESTROYED"}) <= 1

\* C12: a track-end event with reason finished or loadFailed advances the Queue
\* by one next() and, when next() yields a track, sends one play command for it;
\* with any other reason current, both lanes and history stay as they are and
\* nothing is sent to the Node.
C12_TrackEndAdvances ==
    [][\A r \in TrackEndReason :
         (TrackEnd("p1", r) /\ hEvent' = r) =>
            IF r \in {"finished", "loadFailed"}
            THEN LET n == QueueNext(queue["p1"])
                 IN  /\ queue'["p1"] = n.q
                     /\ IF n.ret = Null \/ player["p1"].node = Null
                        THEN sent' = <<>>
                        ELSE /\ Len(sent') = 1
                             /\ sent'[1].kind = "play"
                             /\ sent'[1].track = n.ret
            ELSE /\ queue'["p1"] = queue["p1"]
                 /\ sent' = <<>>
                 /\ inflight'["p1"] = inflight["p1"]]_vars

\* a track-end with reason replaced was handled while tracks were waiting in the Queue
C12_Witness ==
    /\ hEvent = "replaced"
    /\ queue["p1"].current # Null
    /\ queue["p1"].tracks # <<>>

\* C13: pause() on a paused Player and resume() on a Player that is not paused
\* send nothing to the Node, start no call and leave the Player (flags, state,
\* inactivity timer) as it is.
C13_PauseResumeNoOp ==
    [][((PlayerPause("p1") /\ player["p1"].paused)
            \/ (PlayerResume("p1") /\ ~player["p1"].paused)) =>
          /\ sent' = <<>>
          /\ inflight' = inflight
          /\ player' = player]_vars

\* the inactivity timers of a Player that are armed
ArmedTimers(p) ==
    (IF player[p].inactivityTimer # "none" THEN 1 ELSE 0) + player[p].orphanTimers

\* C14: a Player never has more than one inactivity timer armed, and when a
\* play() call completes successfully no inactivity timer of the Player is armed.
C14_OneInactivityTimer ==
    /\ [](\A p \in PlayerIds : ArmedTimers(p) <= 1)
    /\ [][\A i \in 1..MaxInflight :
            (/\ i <= Len(inflight["p1"])
             /\ inflight["p1"][i].op = "play"
             /\ Settles("p1", i, TRUE)) =>
                ArmedTimers("p1")' = 0]_vars

\* a timer is armed that replaced an armed one, and a play() call is about to complete
C14_Witness ==
    /\ player["p1"].inactivityTimer # "none"
    /\ player["p1"].hRearmed
    /\ \E i \in 1..Len(inflight["p1"]) : inflight["p1"][i].op = "play"

\* C15: when migrateNode has rebound a voice-connected Player, the new Node is
\* sent a voice update with the session id, token and endpoint the Player's
\* Connection holds.
C15_MigrateResendsVoice ==
    [][\A i \in 1..MaxInflight, ok \in BOOLEAN :
         (/\ i <= Len(inflight["p1"])
          /\ inflight["p1"][i].op = "migrateDestroy"
          /\ player["p1"].connected
          /\ player["p1"].conn.connected
          /\ Settles("p1", i, ok)) =>
            \E j \in 1..Len(sent') :
                /\ sent'[j].kind = "voice"
                /\ sent'[j].node = inflight["p1"][i].arg
                /\ sent'[j].voice = [sessionId |-> player["p1"].conn.sessionId,
                                     token |-> player["p1"].conn.token,
                                     endpoint |-> player["p1"].conn.endpoint,
                                     has |-> VoiceKeys]]_vars

\* C16: under track-loop with a current track, next() returns that track and
\* leaves history as long as it was.
C16_TrackLoopKeepsHistory ==
    [][(CallNext /\ opQueue.loop = "track" /\ opQueue.current # Null) =>
          /\ opRet' = opQueue.current
          /\ opQueue'.current = opQueue.current
          /\ Len(opQueue'.history) = Len(opQueue.history)]_vars

\* C17: on a Queue that started under queue-loop with an empty priority lane, one
\* main-lane track T and nothing playing, every next() returns T and leaves the
\* main lane with one track.
C17_QueueLoopSingleTrack ==
    [][(/\ CallNext
        /\ hStart.loop = "queue"
        /\ hStart.priorityTracks = <<>>
        /\ Len(hStart.tracks) = 1
        /\ hStart.current = Null) =>
          /\ opRet' = hStart.tracks[1]
          /\ Len(opQueue'.tracks) = 1]_vars

\* C18: back() called right after a jump(p) that was made with a current track C
\* and 0 <= p < size makes C the current track again.
C18_JumpBackRestores ==
    [][(CallBack /\ hJumpedFrom # Null) => opQueue'.current = hJumpedFrom]_vars

\* C19: with loop off, the calls of next() return the tracks of the priority lane
\* in order, then those of the main lane in order, each once, and null from then on.
C19_DrainsInOrder ==
    hStart.loop = "off" =>
        LET all == hStart.priorityTracks \o hStart.tracks
        IN  \A i \in 1..Len(hRets) :
                hRets[i] = IF i <= Len(all) THEN all[i] ELSE Null

\* priority = [T1], main = [T2, T3], loop off: four calls returned T1, T2, T3, null
C19_Witness ==
    /\ hStart.loop = "off"
    /\ hStart.priorityTracks = <<"T1">>
    /\ hStart.tracks = <<"T2", "T3">>
    /\ hRets = <<"T1", "T2", "T3", Null>>

\* the Track object obj carries what the queued track t carries (payload, author,
\* duration, seekable flag)
SameTrack(obj, t) == [obj EXCEPT !.addedAt = "created"] = TrackObject(t)

SameLane(objs, ts) ==
    /\ Len(objs) = Len(ts)
    /\ \A i \in 1..Len(ts) : SameTrack(objs[i], ts[i])

SameOrNull(objs, t) ==
    IF t = Null THEN objs = <<>> ELSE Len(objs) = 1 /\ SameTrack(objs[1], t)

\* C20: the Queue that fromJSON builds from toJSON() has the same tracks in the
\* same order in the priority lane, the main lane and history, the same current
\* and previous track, the same loop mode and the same autoplay flag.
C20_RoundTrip ==
    restored # <<>> =>
        LET r == restored[1]
        IN  /\ SameLane(r.priorityTracks, opQueue.priorityTracks)
            /\ SameLane(r.tracks, opQueue.tracks)
            /\ SameLane(r.history, opQueue.history)
            /\ SameOrNull(r.current, opQueue.current)
            /\ SameOrNull(r.previous, opQueue.previous)
            /\ r.loop = opQueue.loop
            /\ r.autoplay = opQueue.autoplay

\* a Queue with tracks in both lanes and in history, a current and a previous
\* track, queue-loop and autoplay was serialized and restored
C20_Witness ==
    /\ restored # <<>>
    /\ opQueue.priorityTracks # <<>>
    /\ opQueue.tracks # <<>>
    /\ \E i \in 1..Len(opQueue.history) : opQueue.history[i] = "T3"
    /\ opQueue.current = "T2"
    /\ opQueue.previous # Null
    /\ opQueue.loop = "queue"
    /\ opQueue.autoplay

(***************************************************************************)
(* Claims about the Node's sockets                                         *)
(***************************************************************************)

\* the sockets of a Node that are connecting or open; connect() attaches the
\* handlers when it creates the socket and nothing detaches them
LiveSockets(n) ==
    {i \in 1..Len(sockets[n]) : sockets[n][i].rs \in {"connecting", "open"}}

\* C21: a Node never has two sockets that are connecting or open with their
\* handlers attached, whatever the order of connect() calls, reconnect timers,
\* disconnect() and socket events.
C21_OneLiveSocket ==
    \A n \in Nodes : Cardinality(LiveSockets(n)) <= 1

\* C22: the promise of every Node.connect() call eventually settles: resolved
\* when the socket opens, rejected on a socket error or when the handshake
\* timeout elapses, also when disconnect() is called while it is connecting.
C22_NodeConnectSettles ==
    \A i \in 1..MaxSockets :
        (i <= Len(sockets["A"]) /\ sockets["A"][i].promise = "pending")
            ~> (i <= Len(sockets["A"]) /\ sockets["A"][i].promise # "pending")

ConnectedNodes == {n \in pool : nodeState[n] = "CONNECTED"}
RegionMatches(r) == {n \in ConnectedNodes : nodeRegions[n] = {} \/ r \in nodeRegions[n]}

\* C24: getBest(region) returns one of the connected Nodes that declare no
\* regions or list the region when there is one; when none matches it still
\* returns a connected Node whenever any Node is connected.
C24_RegionPreferred ==
    (hBestCalled /\ bestRegion # NoRegion) =>
        /\ RegionMatches(bestRegion) # {} => best \in RegionMatches(bestRegion)
        /\ (RegionMatches(bestRegion) = {} /\ ConnectedNodes # {}) => best \in ConnectedNodes

\* getBest("eu") returned a matching Node although a connected Node that lists
\* only "us" has the better priority
C24_Witness ==
    /\ hBestCalled /\ bestRegion = RegionEU
    /\ best \in RegionMatches(RegionEU)
    /\ \E n \in ConnectedNodes \ RegionMatches(RegionEU) :
           nodePriority[n] < nodePriority[best]

\* stats b is stats a with the one input named field raised or left as it is
RaisedIn(a, b, field) ==
    /\ a.present /\ b.present
    /\ a[field] <= b[field]
    /\ b = [a EXCEPT ![field] = b[field]]

\* C25: Node.penalty does not decrease when one of player count, playing-player
\* count, system load, frame deficit and nulled frames grows while the other
\* inputs stay as they are, and it is 0 when no stats have been received.
C25_PenaltyMonotone ==
    \A a \in Up, b \in Up :
        /\ \A field \in {"players", "playingPlayers", "load", "deficit", "nulled"} :
               RaisedIn(stats[a], stats[b], field)
                   => Penalty(stats[a]) <= Penalty(stats[b])
        /\ stats[a] = NoStats => Penalty(stats[a]) = 0

\* two Nodes whose stats differ in the nulled frames only; getBest compared
\* their penalties and returned the one with fewer nulled frames
C25_Witness ==
    /\ hBestCalled /\ best = "B"
    /\ stats["A"].hasFrames /\ stats["A"].hasCpu
    /\ RaisedIn(stats["B"], stats["A"], "nulled")
    /\ stats["B"].nulled < stats["A"].nulled
    /\ Penalty(stats["B"]) < Penalty(stats["A"])

(***************************************************************************)
(* Claims about the voice session                                          *)
(***************************************************************************)

\* a voice-state or voice-server update is handled
VoiceUpdate ==
    \/ \E ch \in Channels \cup {Null}, sid \in SessionIds \cup {Null} :
           HandleVoiceStateUpdate(ch, sid)
    \/ \E tok \in Tokens \cup {Null}, ep \in Endpoints \cup {NoEndpoint} :
           HandleVoiceServerUpdate(tok, ep)

\* C26: a voice-state update without channel, while a channel was known, emits
\* a disconnect notification and sets connected=false, and a voice-state or
\* voice-server update handled after it (with no connect() in between) does
\* not make connected true again.
C26_ChannelGoneIsTerminal ==
    /\ [][\A sid \in SessionIds \cup {Null} :
            (HandleVoiceStateUpdate(Null, sid) /\ channelId # Null)
                => (emitted' = <<"disconnect">> /\ ~connected')]_vars
    /\ [][(emitted = <<"disconnect">> /\ VoiceUpdate) => ~connected']_vars

(***************************************************************************)
(* Claims about the Queue's lanes                                          *)
(***************************************************************************)

\* the tracks next() can still return without a new add(): those waiting in a
\* lane, the current one and the one just finished
InRotation(q) ==
    {q.priorityTracks[i] : i \in 1..Len(q.priorityTracks)}
        \cup {q.tracks[i] : i \in 1..Len(q.tracks)}
        \cup ({q.current, q.previous} \ {Null})

\* C27: under queue-loop, with no removals, every track next() has returned
\* stays in rotation (so that a later next() returns it again), whatever
\* add() calls come between the next() calls, also adds to the priority lane
\* while a main-lane track is current.
C27_RotationContinues ==
    opQueue.loop = "queue" =>
        \A i \in 1..Len(hRets) : hRets[i] # Null => hRets[i] \in InRotation(opQueue)

\* C28: on a Queue that held every track once, after any calls of next(),
\* back() and jump() under any loop mode, the current track is in neither lane.
C28_CurrentNotQueued ==
    opQueue.current # Null =>
        /\ \A i \in 1..Len(opQueue.priorityTracks) : opQueue.priorityTracks[i] # opQueue.current
        /\ \A i \in 1..Len(opQueue.tracks) : opQueue.tracks[i] # opQueue.current

\* C29: jump(p) with 0 <= p < size makes the track at index p of the view
\* [priority..., main...] current and returns it, appends the old current track
\* and then the p skipped tracks to history in order, and leaves the tracks
\* after index p in their order, the first max(0, oldPriorityLength - p - 1)
\* of them in the priority lane; with p out of range it returns null and
\* leaves the Queue as it is.
C29_JumpSplits ==
    [][\A p \in 0..(MaxLane + MaxLane) :
         CallJump(p) =>
            LET view == opQueue.priorityTracks \o opQueue.tracks
                old == IF opQueue.current # Null THEN <<opQueue.current>> ELSE <<>>
                left == Len(opQueue.priorityTracks) - p - 1
            IN  IF p < Len(view)
                THEN /\ opRet' = view[p + 1]
                     /\ opQueue'.current = view[p + 1]
                     /\ opQueue'.history = opQueue.history \o old \o SubSeq(view, 1, p)
                     /\ opQueue'.priorityTracks \o opQueue'.tracks
                            = SubSeq(view, p + 2, Len(view))
                     /\ Len(opQueue'.priorityTracks) = IF left > 0 THEN left ELSE 0
                ELSE /\ opRet' = Null
                     /\ opQueue' = opQueue]_vars

\* jump(1) was made with a current track: it skipped one track, and tracks are
\* left behind the one it made current
C29_Witness ==
    /\ hJumpedFrom # Null
    /\ opRet = opQueue.current
    /\ Len(opQueue.history) >= 2
    /\ opQueue.history[Len(opQueue.history) - 1] = hJumpedFrom
    /\ opQueue.tracks # <<>>

\* how often track t is in seq
Count(seq, t) == Cardinality({i \in 1..Len(seq) : seq[i] = t})

\* C30: move(from, to) and swap(i, j) with indices in range return true and
\* rearrange the view [priority..., main...], which is cut again at the length
\* the priority lane had: the size, the length of the priority lane and the
\* multiset of queued tracks stay as they were; with an index out of range they
\* return false and leave the Queue as it is.
C30_MoveSwapKeepLanes ==
    [][\A a \in Indices, b \in Indices :
         (CallMove(a, b) \/ CallSwap(a, b)) =>
            LET view == opQueue.priorityTracks \o opQueue.tracks
                after == opQueue'.priorityTracks \o opQueue'.tracks
            IN  IF a >= 0 /\ a < Len(view) /\ b >= 0 /\ b < Len(view)
                THEN /\ opRet' = "true"
                     /\ Len(after) = Len(view)
                     /\ Len(opQueue'.priorityTracks) = Len(opQueue.priorityTracks)
                     /\ \A t \in OpTracks : Count(after, t) = Count(view, t)
                     /\ after[b + 1] = view[a + 1]
                     /\ CallSwap(a, b) => after[a + 1] = view[b + 1]
                     /\ opQueue' = [opQueue EXCEPT
                                       !.priorityTracks = opQueue'.priorityTracks,
                                       !.tracks = opQueue'.tracks]
                ELSE /\ opRet' = "false"
                     /\ opQueue' = opQueue]_vars

\* a move or swap took a track across the boundary between the lanes
C30_Witness ==
    /\ opRet = "true"
    /\ Len(opQueue.priorityTracks) = Len(hStart.priorityTracks)
    /\ opQueue.priorityTracks # hStart.priorityTracks
    /\ opQueue.tracks # hStart.tracks

(***************************************************************************)
(* Claims about failure handling and the Player's life                     *)
(***************************************************************************)

\* a call that the migrateNode call of handleNodeFailure awaits
IsFailoverCall(k) == k.num = 1 \/ (k.op = "play" /\ k.arg = "failover")

\* C31: handleNodeFailure attempts the migration of every Player that was
\* bound to the failed Node: a migration that raises, or a Player for which no
\* healthy Node is found, does not keep the loop from reaching the others.
\* While the call runs it awaits the migration of one Player, the Players it
\* has reached and those it has still to reach are all the Players of the
\* failed Node, and when it has completed it has reached them all.
C31_FailureLoopReachesAll ==
    /\ ~hnf.active => hnf.visited = hnf.todo
    /\ hnf.active =>
          /\ hnf.visited \cup {hnf.remaining[i] : i \in 1..Len(hnf.remaining)} = hnf.todo
          /\ hnf.current \in hnf.visited
          /\ \E i \in 1..Len(inflight[hnf.current]) :
                 IsFailoverCall(inflight[hnf.current][i])

\* handleNodeFailure has completed for two Players; the migration of the
\* first one failed and the second one was migrated to Node B
C31_Witness ==
    /\ ~hnf.active
    /\ hnf.todo = {"p1", "p2"}
    /\ hnf.visited = {"p1", "p2"}
    /\ hnf.raised = {"p1"}
    /\ player["p2"].node = "B"

\* C32: a track-exception event followed by the track-end event with reason
\* loadFailed for the same track advances the Queue by one position: the
\* track that the exception made current stays current when the track-end
\* event is handled, and no queued track is skipped.
C32_OneAdvancePerFailure ==
    [][(/\ hEvent = "exception"
        /\ queue["p1"].previous # Null
        /\ queue["p1"].current # Null
        /\ queue["p1"].loop = "off"
        /\ TrackEnd("p1", "loadFailed") /\ hEvent' = "loadFailed") =>
          /\ queue'["p1"].current = queue["p1"].current
          /\ queue'["p1"].tracks = queue["p1"].tracks]_vars

\* C33: destroy() of one Player removes only that Player from the registry: a
\* registered Player that is not destroyed by a step is still registered after
\* it, whatever destroy() of an older Player of its guild completes.
C33_DestroyRemovesOnlyItself ==
    [][\A g \in Guilds, p \in PlayerIds :
           (/\ players[g] = p
            /\ player[p].state # "DESTROYED"
            /\ player'[p].state # "DESTROYED") => players'[g] = p]_vars

\* C34: when the play command of a play() call without a track is rejected by
\* the Node, and nothing else touched the Queue since the call, the Queue is
\* again as it was before the call: lanes, current, previous and history.
C34_FailedPlayKeepsQueue ==
    [][\A i \in 1..MaxInflight :
           (/\ i <= Len(inflight["p1"])
            /\ inflight["p1"][i].op = "play"
            /\ inflight["p1"][i].arg = "skip"
            /\ "hBefore" \in DOMAIN inflight["p1"][i]
            /\ queue["p1"] = QueueNext(inflight["p1"][i].hBefore).q
            /\ Settles("p1", i, FALSE)
            /\ inflight'["p1"] = RemoveAt(inflight["p1"], i))
           => queue'["p1"] = inflight["p1"][i].hBefore]_vars

\* C35: while a Player is playing and not paused no inactivity timer is armed;
\* stated for the timers of pause() and stop() on a Player that has a current
\* track (a play command was sent for it) and no call in flight.
C35_NoTimerWhilePlaying ==
    \A p \in PlayerIds :
        (/\ player[p].state # "DESTROYED"
         /\ queue[p].current # Null
         /\ inflight[p] = <<>>
         /\ player[p].playing
         /\ ~player[p].paused) => player[p].inactivityTimer \notin {"paused", "stopped"}

\* C36: a migration keeps the paused flag: when the play that migrateNode
\* re-issued for a paused Player succeeds, the Player is still paused.
C36_MigrationKeepsPaused ==
    [][\A i \in 1..MaxInflight :
           (/\ i <= Len(inflight["p1"])
            /\ inflight["p1"][i].op = "play"
            /\ inflight["p1"][i].arg = "migrate"
            /\ player["p1"].hPaused
            /\ player["p1"].paused
            /\ Settles("p1", i, TRUE)
            /\ inflight'["p1"] = RemoveAt(inflight["p1"], i))
           => player'["p1"].paused]_vars

\* C37: a Node in state connected has an open socket: once the socket the Node
\* holds has closed, the Node's state is not connected, whatever retryAmount is.
C37_ConnectedHasSocket ==
    [][\A n \in Nodes, i \in 1..MaxSockets :
           (ws[n] = i /\ SockClose(n, i)) => nodeState'[n] # "CONNECTED"]_vars

\* C38: when the voice handshake of create() times out, create() rejects and
\* the Player it constructed is not left in the registry of its guild.
C38_FailedCreateNotRegistered ==
    [][\A p \in PlayerIds :
           (/\ player[p].guildId # Null
            /\ player[p].conn.pending
            /\ VoiceTimeout(p)) => players'[player[p].guildId] # p]_vars

\* C39: the handshake timer armed by one connect() call fails that call only:
\* when it fires, no other connect() call changes its outcome.
C39_TimeoutFailsItsOwnCall ==
    [][\A k \in 1..MaxCalls :
           ConnectTimeoutFires(k) =>
               \A j \in 1..Len(calls) : j # k => calls'[j] = calls[j]]_vars

\* the state field of a Player record agrees with its flags
Agrees(pl) ==
    /\ pl.state = "PLAYING" <=> (pl.playing /\ ~pl.paused)
    /\ pl.state = "PAUSED" <=> (pl.playing /\ pl.paused)

\* C40: the state field of a Player agrees with its flags (playing exactly
\* when playing and not paused, paused exactly when playing and paused); stated
\* for the steps the claim names: a Player whose state agrees with its flags
\* still agrees after a socket-closed event with code 4014 and after a voice
\* disconnect notification.
C40_StateAgreesWithFlags ==
    [][\A p \in PlayerIds :
           (/\ player[p].state \in {"PLAYING", "PAUSED"}
            /\ queue[p].current # Null
            /\ inflight[p] = <<>>
            /\ Agrees(player[p])
            /\ WebSocketClosed(p, 4014) \/ VoiceChannelGone(p))
           => Agrees(player'[p])]_vars

====
